---- MODULE Spec2Model ----
(***************************************************************************)
(* Model of the fleet position store (fleet/movement_manager.py) and its   *)
(* geo math (fleet/movement_utils.py).                                     *)
(*                                                                         *)
(* Coordinates are integers in metres of arc: one degree is DegM units.    *)
(* The trigonometric formulas of movement_utils are modelled on the part   *)
(* of the sphere where they reduce to exact integer arithmetic: pairs of   *)
(* points that both lie on the equator (lat = 0) or on the same meridian.  *)
(* There haversine is the (wrapped) coordinate difference, the bearing is  *)
(* one of 0, 90, 180, 270 and the destination formula adds the distance to *)
(* one coordinate.  Antipodal pairs are outside the modelled domain.       *)
(***************************************************************************)
EXTENDS Integers, Sequences, FiniteSets, TLC

\* ------------------------------------------------------------------ bounds
MaxLoads == 2
MaxClock == 2
MaxTicks == 190
MaxSaveTicks == 2
MaxSessionTicks == 1
MaxLifeTicks == 2

\* --------------------------------------------------------------- constants
DegM == 111195
MOVEMENT_DISTANCE == 600

HalfTurn == 180 * DegM
FullTurn == 360 * DegM
QuarterTurn == 90 * DegM

\* absent values, one per type
NoRow == [no_row |-> TRUE]
NoObj == [no_dict |-> TRUE]
NoRef == <<>>
NoSnap == <<>>
NoPoint == <<>>
NoMove == <<>>

AllIds == {1, 2, 3}
Callers == {1, 2}
Cmds == {1, 2}
Clients == {1, 2}
NoCommand == [no_command |-> TRUE]
NoRequest == [pc |-> "idle", action |-> "none", pk |-> 0, response |-> "none"]

\* a filter field or a message field: a number, None, text that is not a
\* number, or (in a message) no such key
Num(v) == [num |-> v]
Null == [null |-> TRUE]
Text == [text |-> "abc"]
Absent == [absent |-> TRUE]
NoFilters ==
    [lat |-> Null, lng |-> Null, radius |-> Null,
     min_lat |-> Null, max_lat |-> Null, min_lng |-> Null, max_lng |-> Null]
NoInfo == [type |-> "none"]
NoEmission == [no_data |-> TRUE]
NoThread == 0
\* the threads start() can make: a movement thread (odd) and a save thread
\* (even) at each call
ThreadIds == {1, 2, 3, 4}
NoIteration == [calls |-> 0, elapsed_time |-> -1, sleep_time |-> 0,
                slept |-> 0, warned |-> FALSE, after_slow |-> FALSE]
Refs == AllIds \X (1..MaxLoads)

\* -------------------------------------------------------------- geo math
\* 2 * atan2(sqrt(a), sqrt(1 - a)) for a = sin^2(d / 2): the angle d folded
\* into [0, 180 degrees]
Haversine(d) ==
    LET m == d % FullTurn
    IN  IF m > HalfTurn THEN FullTurn - m ELSE m

calculate_distance(lat1, lng1, lat2, lng2) ==
    CASE lat1 = 0 /\ lat2 = 0 -> Haversine(lng2 - lng1)
      [] (lat1 # 0 \/ lat2 # 0) /\ (lng2 - lng1) % FullTurn = 0
                               -> Haversine(lat2 - lat1)

\* atan2(y, x) in degrees for the arguments the bearing formula produces:
\* on the equator x = 0 and y = sin(dlng); on a meridian y = 0 and
\* x = sin(dlat)
BearingDeg(lat1, lng1, lat2, lng2) ==
    CASE lat1 = 0 /\ lat2 = 0 ->
            (LET m == (lng2 - lng1) % FullTurn
             IN  CASE m = 0 -> 0
                   [] m > 0 /\ m < HalfTurn -> 90
                   [] m > HalfTurn -> -90)
      [] (lat1 # 0 \/ lat2 # 0) /\ (lng2 - lng1) % FullTurn = 0 ->
            IF lat2 >= lat1 THEN 0 ELSE 180

calculate_bearing(lat1, lng1, lat2, lng2) ==
    (BearingDeg(lat1, lng1, lat2, lng2) + 360) % 360

\* the longitude is lng_rad + atan2(...): it is not folded back into
\* [-180, 180] degrees
move_distance_with_bearing(lat, lng, distance_meters, bearing_degrees) ==
    CASE bearing_degrees = 0 /\ lat + distance_meters < QuarterTurn
                                -> <<lat + distance_meters, lng>>
      [] bearing_degrees = 180 /\ lat - distance_meters > -QuarterTurn
                                -> <<lat - distance_meters, lng>>
      [] bearing_degrees = 90 /\ lat = 0 -> <<0, lng + distance_meters>>
      [] bearing_degrees = 270 /\ lat = 0 -> <<0, lng - distance_meters>>

\* mutant: arrival tested with < instead of <=
move_towards_target_strict(current_lat, current_lng, target_lat, target_lng, distance_meters) ==
    LET remaining_distance ==
            calculate_distance(current_lat, current_lng, target_lat, target_lng)
        bearing == calculate_bearing(current_lat, current_lng, target_lat, target_lng)
        new == move_distance_with_bearing(current_lat, current_lng,
                                          distance_meters, bearing)
    IN  IF remaining_distance < distance_meters
        THEN <<target_lat, target_lng, TRUE>>
        ELSE <<new[1], new[2], FALSE>>

move_towards_target(current_lat, current_lng, target_lat, target_lng, distance_meters) ==
    LET remaining_distance ==
            calculate_distance(current_lat, current_lng, target_lat, target_lng)
        bearing == calculate_bearing(current_lat, current_lng, target_lat, target_lng)
        new == move_distance_with_bearing(current_lat, current_lng,
                                          distance_meters, bearing)
    IN  IF remaining_distance <= distance_meters
        THEN <<target_lat, target_lng, TRUE>>
        ELSE <<new[1], new[2], FALSE>>

\* ------------------------------------------------------------------ state
VARIABLES
    db,               \* Plane rows of durable storage: id -> row or NoRow
    txn,              \* writes staged by the open transaction of the save
    heap,             \* the per-plane dict objects: ref -> dict or NoObj
    plane_positions,  \* the table: id -> ref of its dict, None if no key
    positions_lock,   \* "free" or the operation that holds the lock
    now,              \* time.time(), a logical clock that saturates
    loads,            \* number of loads so far (generation of the dicts)
    load_pre,         \* the table's values before the last load, until a tick or save
    tick_pc,          \* position of the thread inside update_positions
    tick_items,       \* list(self.plane_positions.items()) still to visit
    tick_new,         \* (new_lat, new_lng, reached_target) of the current item
    tick_pre,         \* the table's values when the tick took the lock
    tick_failed,      \* entities whose processing raised in the tick in progress
    save_pc,          \* position of the thread inside save_to_database
    save_iter,        \* keys the dict iterator has still to yield
    save_broken,      \* the dict changed size under the iterator
    save_pre,         \* the table's values when the save took the lock
    save_gone,        \* ids of the table with no row when the save started
    save_failed,      \* ids whose write raised an error during the save
    snap,             \* mapping returned by get_all_positions, per caller
    snap_val,         \* the values that mapping held when it was returned
    diverted,         \* target set by update_plane_target, until arrival
    commanded,        \* target set by update_plane_target, until a tick uses it
    ret,              \* value returned by the last update_plane_target
    ticks,            \* update_positions calls completed (negative: not counted)
    commands,         \* Command rows of durable storage: id -> row or none
    req,              \* the accept or reject request each client has in progress
    calls,            \* the update_plane_target calls made for each command
    session,          \* "Connecting", "Active" or "Closed"
    filters,          \* the seven filter fields of the consumer
    reply,            \* the last message the consumer sent in answer to its client
    send_pc,          \* position of the consumer inside one round of its send loop
    send_snap,        \* positions_with_heading of that round
    send_items,       \* entities of send_snap still to be filtered
    send_out,         \* ids appended to planes so far
    send_info,        \* filter_info so far
    send_flt,         \* the filter fields when the round started
    send_raced,       \* a message changed the filter fields during the round
    emission,         \* the data of the positions_update sent by the last round
    is_sending,       \* the flag the send loop tests before each round
    send_task,        \* the task of the send loop: "none", "running", "cancelled", "failed"
    running,          \* the flag both loops of the manager test
    movement_thread,  \* the thread start() made last for movement_loop, 0: None
    db_save_thread,   \* the thread start() made last for db_save_loop, 0: None
    thread_pc,        \* position of every thread inside its loop
    stop_pc,          \* position of the caller of stop() inside stop
    iteration         \* what the iteration of movement_loop in progress did

dbVars == <<db, txn>>
storeVars == <<heap, plane_positions, positions_lock, now, loads>>
tickVars == <<tick_pc, tick_items, tick_new, tick_pre, tick_failed>>
saveVars == <<save_pc, save_iter, save_broken, save_pre, save_gone, save_failed>>
snapVars == <<snap, snap_val>>
cmdVars == <<diverted, commanded, ret>>
flowVars == <<commands, req, calls>>
sessVars == <<session, filters, reply, send_pc, send_snap, send_items, send_out,
              send_info, send_flt, send_raced, emission, is_sending, send_task>>
lifeVars == <<running, movement_thread, db_save_thread, thread_pc, stop_pc,
              iteration>>
vars == <<db, txn, heap, plane_positions, positions_lock, now, loads, load_pre,
          tick_pc, tick_items, tick_new, tick_pre, tick_failed,
          save_pc, save_iter, save_broken, save_pre, save_gone, save_failed,
          snap, snap_val, diverted, commanded, ret, ticks,
          commands, req, calls,
          session, filters, reply, send_pc, send_snap, send_items, send_out,
          send_info, send_flt, send_raced, emission, is_sending, send_task,
          running, movement_thread, db_save_thread, thread_pc, stop_pc,
          iteration>>

Point(x, y) == [x |-> x, y |-> y]

Row(start, end, current, going) ==
    [start_point |-> start, end_point |-> end,
     current_position |-> current, is_going_to_end |-> going]

\* the routes of the fleet: plane 1 flies along the equator across the
\* antimeridian, plane 2 along the meridian of one degree east, plane 3
\* along the equator
Routes ==
    [i \in AllIds |->
        CASE i = 1 -> <<Point(HalfTurn - 700, 0), Point(700 - HalfTurn, 0)>>
          [] i = 2 -> <<Point(DegM, 300), Point(DegM, 1200)>>
          [] i = 3 -> <<Point(0, 0), Point(900, 0)>>]

\* points an accepted command may send a plane to (on its great circle)
CommandTargets ==
    [i \in AllIds |->
        CASE i = 1 -> {<<0, HalfTurn - 400>>}
          [] i = 2 -> {<<-300, DegM>>}
          [] i = 3 -> {<<0, -300>>}]

Keys(tbl) == {i \in AllIds : tbl[i] # NoRef}

\* the key-value pairs of a table, by value
Deref(h, tbl) == [i \in AllIds |-> IF tbl[i] = NoRef THEN NoObj ELSE h[tbl[i]]]

TableView == Deref(heap, plane_positions)

\* the keys of a table given by value
Present(view) == {i \in AllIds : view[i] # NoObj}

Referenced(r, sn) ==
    \E c \in Callers : sn[c] # NoSnap /\ \E i \in AllIds : sn[c][i] = r

\* dict objects nobody refers to any more are reclaimed
Collect(h, tbl, sn) ==
    [r \in Refs |-> IF tbl[r[1]] = r \/ Referenced(r, sn) THEN h[r] ELSE NoObj]

Tick(t) == IF t < MaxClock THEN t + 1 ELSE MaxClock

RECURSIVE SortedSeq(_)
SortedSeq(S) ==
    IF S = {} THEN <<>>
    ELSE LET m == CHOOSE x \in S : \A y \in S : x <= y
         IN  <<m>> \o SortedSeq(S \ {m})

NoGhost == [i \in AllIds |-> NoObj]
NoPoints == [i \in AllIds |-> NoPoint]

InitCommon ==
    /\ txn = [i \in AllIds |-> NoRow]
    /\ heap = [r \in Refs |-> NoObj]
    /\ plane_positions = [i \in AllIds |-> NoRef]
    /\ positions_lock = "free"
    /\ now = 0
    /\ loads = 0
    /\ load_pre = NoGhost
    /\ tick_pc = "idle"
    /\ tick_items = <<>>
    /\ tick_new = NoMove
    /\ tick_pre = NoGhost
    /\ tick_failed = {}
    /\ save_pc = "idle"
    /\ save_iter = <<>>
    /\ save_broken = FALSE
    /\ save_pre = NoGhost
    /\ save_gone = {}
    /\ save_failed = {}
    /\ snap = [c \in Callers |-> NoSnap]
    /\ snap_val = [c \in Callers |-> NoSnap]
    /\ diverted = NoPoints
    /\ commanded = NoPoints
    /\ ret = "None"
    /\ commands = [c \in Cmds |-> NoCommand]
    /\ req = [r \in Clients |-> NoRequest]
    /\ calls = [c \in Cmds |-> <<>>]
    /\ session = "Connecting"
    /\ filters = NoFilters
    /\ reply = [type |-> "none"]
    /\ send_pc = "idle"
    /\ send_snap = NoGhost
    /\ send_items = <<>>
    /\ send_out = {}
    /\ send_info = NoInfo
    /\ send_flt = NoFilters
    /\ send_raced = FALSE
    /\ emission = NoEmission
    /\ is_sending = FALSE
    /\ send_task = "none"
    /\ running = FALSE
    /\ movement_thread = NoThread
    /\ db_save_thread = NoThread
    /\ thread_pc = [t \in ThreadIds |-> "unborn"]
    /\ stop_pc = "idle"
    /\ iteration = NoIteration

\* rows as create_planes leaves them: somewhere on the route, going to end
InitialRow(i, atStart) ==
    Row(Routes[i][1], Routes[i][2],
        IF atStart THEN Routes[i][1] ELSE Routes[i][2], TRUE)

\* rows as an earlier run of the process left them: at one end of the route,
\* going either way
StoredRow(i, atStart, going) ==
    Row(Routes[i][1], Routes[i][2],
        IF atStart THEN Routes[i][1] ELSE Routes[i][2], going)

\* ------------------------------------------------------------------- load
LoadedDict(row, t) ==
    [current_lat |-> row.current_position.y,
     current_lng |-> row.current_position.x,
     target_lat |-> IF row.is_going_to_end THEN row.end_point.y
                    ELSE row.start_point.y,
     target_lng |-> IF row.is_going_to_end THEN row.end_point.x
                    ELSE row.start_point.x,
     is_going_to_end |-> row.is_going_to_end,
     last_updated |-> t]

\* mutant: the entries of rows that no longer exist are kept
LoadedTable_keep(rows, gen) ==
    [i \in AllIds |-> IF rows[i] = NoRow THEN plane_positions[i] ELSE <<i, gen>>]

LoadedTable(rows, gen) ==
    [i \in AllIds |-> IF rows[i] = NoRow THEN NoRef ELSE <<i, gen>>]

LoadedHeap(h, rows, gen, t) ==
    [r \in Refs |-> IF r[2] = gen /\ rows[r[1]] # NoRow
                    THEN LoadedDict(rows[r[1]], t) ELSE h[r]]

load_planes ==
    /\ positions_lock = "free"
    /\ loads < MaxLoads
    /\ loads' = loads + 1
    /\ now' = Tick(now)
    /\ plane_positions' = LoadedTable(db, loads')
    /\ heap' = Collect(LoadedHeap(heap, db, loads', now'), plane_positions', snap)
    /\ diverted' = NoPoints
    /\ commanded' = NoPoints
    /\ load_pre' = TableView
    /\ UNCHANGED <<ticks, flowVars, sessVars, dbVars, positions_lock, tickVars, saveVars, snapVars, ret>>

load_planes_from_db == load_planes /\ UNCHANGED lifeVars

\* ------------------------------------------------------- update_positions
\* line 100: the emptiness test is made before the lock is taken
update_positions_call ==
    /\ tick_pc = "idle"
    /\ tick_pc' = IF Keys(plane_positions) = {} THEN "idle" ELSE "acquire"
    /\ UNCHANGED <<ticks, load_pre, flowVars, sessVars, dbVars, storeVars, tick_items, tick_new, tick_pre,
                   tick_failed, saveVars, snapVars, cmdVars>>

update_positions_enter == update_positions_call /\ UNCHANGED lifeVars

\* lines 105-108: take the lock, read the clock, copy the item list
update_positions_lock ==
    /\ tick_pc = "acquire"
    /\ positions_lock = "free"
    /\ positions_lock' = "update_positions"
    /\ now' = Tick(now)
    /\ tick_items' = SortedSeq(Keys(plane_positions))
    /\ tick_pre' = TableView
    /\ tick_failed' = {}
    /\ tick_pc' = "item"
    /\ load_pre' = NoGhost
    /\ UNCHANGED <<ticks, flowVars, sessVars, lifeVars, dbVars, heap, plane_positions, loads, tick_new,
                   saveVars, snapVars, cmdVars>>

\* lines 111-118: compute the step of the next item, store the latitude
update_positions_move ==
    /\ tick_pc = "item"
    /\ tick_items # <<>>
    /\ LET plane_id == Head(tick_items)
           ref == plane_positions[plane_id]
           pos == heap[ref]
           new == move_towards_target(pos.current_lat, pos.current_lng,
                                      pos.target_lat, pos.target_lng,
                                      MOVEMENT_DISTANCE)
       IN  /\ tick_new' = new
           /\ heap' = [heap EXCEPT ![ref].current_lat = new[1]]
           /\ commanded' = [commanded EXCEPT ![plane_id] = NoPoint]
    /\ tick_pc' = "lng"
    /\ UNCHANGED <<ticks, load_pre, flowVars, sessVars, lifeVars, dbVars, plane_positions, positions_lock, now, loads,
                   tick_items, tick_pre, tick_failed, saveVars, snapVars, diverted,
                   ret>>

\* lines 119-123: store the longitude and the time, test reached_target
update_positions_lng ==
    /\ tick_pc = "lng"
    /\ LET ref == plane_positions[Head(tick_items)]
       IN  heap' = [heap EXCEPT ![ref].current_lng = tick_new[2],
                                ![ref].last_updated = now]
    /\ IF tick_new[3]
       THEN tick_pc' = "flip" /\ UNCHANGED tick_items
       ELSE tick_pc' = "item" /\ tick_items' = Tail(tick_items)
    /\ UNCHANGED <<ticks, load_pre, flowVars, sessVars, lifeVars, dbVars, plane_positions, positions_lock, now, loads,
                   tick_new, tick_pre, tick_failed, saveVars, snapVars, cmdVars>>

\* line 124: the plane reached its target, change direction
update_positions_flip ==
    /\ tick_pc = "flip"
    /\ LET ref == plane_positions[Head(tick_items)]
       IN  heap' = [heap EXCEPT ![ref].is_going_to_end = ~ @]
    /\ tick_pc' = "lookup"
    /\ UNCHANGED <<ticks, load_pre, flowVars, sessVars, lifeVars, dbVars, plane_positions, positions_lock, now, loads,
                   tick_items, tick_new, tick_pre, tick_failed, saveVars, snapVars, cmdVars>>

\* the new target of a plane that just changed direction (lines 127-142)
NewTarget(pos, row) ==
    IF pos.is_going_to_end
    THEN [pos EXCEPT !.target_lat = row.end_point.y,
                     !.target_lng = row.end_point.x]
    ELSE [pos EXCEPT !.target_lat = row.start_point.y,
                     !.target_lng = row.start_point.x]

\* mutant: the fault is caught outside the loop over the entities, which it ends
update_positions_lookup_abort(fault) ==
    /\ tick_pc = "lookup"
    /\ LET plane_id == Head(tick_items)
           ref == plane_positions[plane_id]
       IN  /\ IF fault
              THEN UNCHANGED <<heap, plane_positions>>
              ELSE IF db[plane_id] = NoRow
              THEN /\ plane_positions' = [plane_positions EXCEPT ![plane_id] = NoRef]
                   /\ heap' = Collect(heap, plane_positions', snap)
              ELSE /\ heap' = [heap EXCEPT ![ref] = NewTarget(@, db[plane_id])]
                   /\ UNCHANGED plane_positions
           /\ diverted' = [diverted EXCEPT ![plane_id] = NoPoint]
           /\ tick_failed' = IF fault THEN tick_failed \cup {plane_id}
                              ELSE tick_failed
    /\ tick_items' = IF fault THEN <<>> ELSE Tail(tick_items)
    /\ tick_pc' = "item"
    /\ UNCHANGED <<ticks, load_pre, flowVars, sessVars, lifeVars, dbVars, positions_lock, now, loads, tick_new, tick_pre,
                   saveVars, snapVars, commanded, ret>>

\* lines 127-153: Plane.objects.get(id=plane_id) and what follows it.
\* fault: the query raises something other than ObjectDoesNotExist, which
\* the handler of line 152 logs.
update_positions_lookup(fault) ==
    /\ tick_pc = "lookup"
    /\ LET plane_id == Head(tick_items)
           ref == plane_positions[plane_id]
       IN  /\ IF fault
              THEN UNCHANGED <<heap, plane_positions>>
              ELSE IF db[plane_id] = NoRow
              THEN /\ plane_positions' = [plane_positions EXCEPT ![plane_id] = NoRef]
                   /\ heap' = Collect(heap, plane_positions', snap)
              ELSE /\ heap' = [heap EXCEPT ![ref] = NewTarget(@, db[plane_id])]
                   /\ UNCHANGED plane_positions
           /\ diverted' = [diverted EXCEPT ![plane_id] = NoPoint]
           /\ tick_failed' = IF fault THEN tick_failed \cup {plane_id}
                              ELSE tick_failed
    /\ tick_items' = Tail(tick_items)
    /\ tick_pc' = "item"
    /\ UNCHANGED <<ticks, load_pre, flowVars, sessVars, lifeVars, dbVars, positions_lock, now, loads, tick_new, tick_pre,
                   saveVars, snapVars, commanded, ret>>

\* line 154: the with block ends, the lock is released
update_positions_return ==
    /\ tick_pc = "item"
    /\ tick_items = <<>>
    /\ positions_lock' = "free"
    /\ tick_pc' = "idle"
    /\ tick_new' = NoMove
    /\ tick_pre' = NoGhost
    /\ tick_failed' = {}
    /\ ticks' = IF ticks < 0 THEN ticks ELSE ticks + 1
    /\ UNCHANGED <<load_pre, flowVars, sessVars, dbVars, heap, plane_positions, now, loads, tick_items,
                   saveVars, snapVars, cmdVars>>

update_positions_exit == update_positions_return /\ UNCHANGED lifeVars

\* ---------------------------------------------------- update_plane_target
\* mutant: the target is overwritten without holding positions_lock
update_plane_target_nolock(plane_id, new_target_lat, new_target_lng) ==
    /\ IF plane_positions[plane_id] # NoRef
       THEN /\ heap' = [heap EXCEPT
                          ![plane_positions[plane_id]].target_lat = new_target_lat,
                          ![plane_positions[plane_id]].target_lng = new_target_lng]
            /\ diverted' = [diverted EXCEPT
                              ![plane_id] = <<new_target_lat, new_target_lng>>]
            /\ commanded' = [commanded EXCEPT
                               ![plane_id] = <<new_target_lat, new_target_lng>>]
            /\ ret' = "True"
       ELSE /\ ret' = "False"
            /\ UNCHANGED <<heap, diverted, commanded>>
    /\ UNCHANGED <<ticks, load_pre, sessVars, lifeVars, dbVars, plane_positions,
                   positions_lock, now, loads, tickVars, saveVars, snapVars>>

\* mutant: the command also restarts the route toward the end point
update_plane_target_flag(plane_id, new_target_lat, new_target_lng) ==
    /\ positions_lock = "free"
    /\ IF plane_positions[plane_id] # NoRef
       THEN /\ heap' = [heap EXCEPT
                          ![plane_positions[plane_id]].target_lat = new_target_lat,
                          ![plane_positions[plane_id]].target_lng = new_target_lng,
                          ![plane_positions[plane_id]].is_going_to_end = TRUE]
            /\ diverted' = [diverted EXCEPT
                              ![plane_id] = <<new_target_lat, new_target_lng>>]
            /\ commanded' = [commanded EXCEPT
                               ![plane_id] = <<new_target_lat, new_target_lng>>]
            /\ ret' = "True"
       ELSE /\ ret' = "False"
            /\ UNCHANGED <<heap, diverted, commanded>>
    /\ UNCHANGED <<ticks, load_pre, sessVars, lifeVars, dbVars, plane_positions,
                   positions_lock, now, loads, tickVars, saveVars, snapVars>>

update_plane_target(plane_id, new_target_lat, new_target_lng) ==
    /\ positions_lock = "free"
    /\ IF plane_positions[plane_id] # NoRef
       THEN /\ heap' = [heap EXCEPT
                          ![plane_positions[plane_id]].target_lat = new_target_lat,
                          ![plane_positions[plane_id]].target_lng = new_target_lng]
            /\ diverted' = [diverted EXCEPT
                              ![plane_id] = <<new_target_lat, new_target_lng>>]
            /\ commanded' = [commanded EXCEPT
                               ![plane_id] = <<new_target_lat, new_target_lng>>]
            /\ ret' = "True"
       ELSE /\ ret' = "False"
            /\ UNCHANGED <<heap, diverted, commanded>>
    /\ UNCHANGED <<ticks, load_pre, sessVars, lifeVars, dbVars, plane_positions,
                   positions_lock, now, loads, tickVars, saveVars, snapVars>>

\* ------------------------------------------------------- durable storage
\* a Plane row is deleted by the administrator, and with it the commands of
\* the plane (on_delete = CASCADE); a row written by the open transaction is
\* locked until that transaction ends
DeletePlane(plane_id) ==
    /\ db[plane_id] # NoRow
    /\ txn[plane_id] = NoRow
    /\ db' = [db EXCEPT ![plane_id] = NoRow]
    /\ commands' = [c \in Cmds |->
                       IF commands[c] # NoCommand /\ commands[c].plane = plane_id
                       THEN NoCommand ELSE commands[c]]
    /\ UNCHANGED <<ticks, load_pre, req, calls, sessVars, lifeVars, txn, storeVars, tickVars,
                   saveVars, snapVars, cmdVars>>

\* ------------------------------------------------------- save_to_database
\* lines 160-166: the emptiness test, then transaction.atomic() begins
save_call ==
    /\ save_pc = "idle"
    /\ save_pc' = IF Keys(plane_positions) = {} THEN "idle" ELSE "acquire"
    /\ save_gone' = {i \in Keys(plane_positions) : db[i] = NoRow}
    /\ UNCHANGED <<ticks, load_pre, flowVars, sessVars, dbVars, storeVars, tickVars, save_iter, save_broken,
                   save_pre, save_failed, snapVars, cmdVars>>

save_enter == save_call /\ UNCHANGED lifeVars

\* mutant: the table is iterated without taking positions_lock
save_lock_nolock ==
    /\ save_pc = "acquire"
    /\ positions_lock = "free"
    /\ save_iter' = SortedSeq(Keys(plane_positions))
    /\ save_broken' = FALSE
    /\ save_pre' = TableView
    /\ save_failed' = {}
    /\ save_pc' = "item"
    /\ load_pre' = NoGhost
    /\ UNCHANGED <<ticks, flowVars, sessVars, lifeVars, dbVars, heap, plane_positions, positions_lock, now,
                   loads, tickVars, save_gone, snapVars, cmdVars>>

\* lines 167-168: take the lock, start iterating over the live dict
save_lock ==
    /\ save_pc = "acquire"
    /\ positions_lock = "free"
    /\ positions_lock' = "save_to_database"
    /\ save_iter' = SortedSeq(Keys(plane_positions))
    /\ save_broken' = FALSE
    /\ save_pre' = TableView
    /\ save_failed' = {}
    /\ save_pc' = "item"
    /\ load_pre' = NoGhost
    /\ UNCHANGED <<ticks, flowVars, sessVars, lifeVars, dbVars, heap, plane_positions, now, loads, tickVars,
                   save_gone, snapVars, cmdVars>>

\* the row as line 172-174 writes it
SavedRow(row, pos) ==
    [row EXCEPT !.current_position = Point(pos.current_lng, pos.current_lat),
                !.is_going_to_end = pos.is_going_to_end]

\* mutant: a plane whose write failed is removed from the table as well
save_item_prune(fault) ==
    /\ save_pc = "item"
    /\ ~ save_broken
    /\ save_iter # <<>>
    /\ LET plane_id == Head(save_iter)
       IN  IF save_failed # {}
           THEN UNCHANGED <<txn, heap, plane_positions, save_broken, save_failed>>
           ELSE IF fault
           THEN /\ save_failed' = {plane_id}
                /\ plane_positions' = [plane_positions EXCEPT ![plane_id] = NoRef]
                /\ heap' = Collect(heap, plane_positions', snap)
                /\ save_broken' = TRUE
                /\ UNCHANGED txn
           ELSE IF db[plane_id] = NoRow
           THEN /\ plane_positions' = [plane_positions EXCEPT ![plane_id] = NoRef]
                /\ heap' = Collect(heap, plane_positions', snap)
                /\ save_broken' = TRUE
                /\ UNCHANGED <<txn, save_failed>>
           ELSE /\ txn' = [txn EXCEPT ![plane_id] =
                              SavedRow(db[plane_id], heap[plane_positions[plane_id]])]
                /\ UNCHANGED <<heap, plane_positions, save_broken, save_failed>>
    /\ save_iter' = Tail(save_iter)
    /\ UNCHANGED <<ticks, load_pre, flowVars, sessVars, lifeVars, db, positions_lock, now, loads, tickVars,
                   save_pc, save_pre, save_gone, snapVars, cmdVars>>

\* lines 168-181: the iterator yields the next key; the row is read and
\* written inside the transaction.  A missing row deletes the key from the
\* dict that is being iterated.  fault: plane.save() raises an error, which
\* line 180 logs; the failed write marks the transaction of line 166 for
\* rollback, and every later query of the block raises as well (and is
\* logged by line 180) until the block is left.
save_item(fault) ==
    /\ save_pc = "item"
    /\ ~ save_broken
    /\ save_iter # <<>>
    /\ LET plane_id == Head(save_iter)
       IN  IF save_failed # {}
           THEN UNCHANGED <<txn, heap, plane_positions, save_broken, save_failed>>
           ELSE IF fault
           THEN /\ save_failed' = {plane_id}
                /\ UNCHANGED <<txn, heap, plane_positions, save_broken>>
           ELSE IF db[plane_id] = NoRow
           THEN /\ plane_positions' = [plane_positions EXCEPT ![plane_id] = NoRef]
                /\ heap' = Collect(heap, plane_positions', snap)
                /\ save_broken' = TRUE
                /\ UNCHANGED <<txn, save_failed>>
           ELSE /\ txn' = [txn EXCEPT ![plane_id] =
                              SavedRow(db[plane_id], heap[plane_positions[plane_id]])]
                /\ UNCHANGED <<heap, plane_positions, save_broken, save_failed>>
    /\ save_iter' = Tail(save_iter)
    /\ UNCHANGED <<ticks, load_pre, flowVars, sessVars, lifeVars, db, positions_lock, now, loads, tickVars,
                   save_pc, save_pre, save_gone, snapVars, cmdVars>>

\* mutant: the lock is released only when the iteration ended normally
save_unlock_leak ==
    /\ save_pc = "item"
    /\ save_broken \/ save_iter = <<>>
    /\ positions_lock' = IF save_broken THEN positions_lock ELSE "free"
    /\ save_pc' = IF save_broken \/ save_failed # {} THEN "rollback" ELSE "commit"
    /\ UNCHANGED <<ticks, load_pre, flowVars, sessVars, lifeVars, dbVars, heap, plane_positions, now, loads, tickVars,
                   save_iter, save_broken, save_pre, save_gone, save_failed,
                   snapVars, cmdVars>>

\* the for statement asks the iterator for the next key: the loop ends when
\* the keys are exhausted, and raises RuntimeError (dictionary changed size
\* during iteration) after a key was deleted; either way the with block of
\* the lock is left
save_unlock ==
    /\ save_pc = "item"
    /\ save_broken \/ save_iter = <<>>
    /\ positions_lock' = "free"
    /\ save_pc' = IF save_broken \/ save_failed # {} THEN "rollback" ELSE "commit"
    /\ UNCHANGED <<ticks, load_pre, flowVars, sessVars, lifeVars, dbVars, heap, plane_positions, now, loads, tickVars,
                   save_iter, save_broken, save_pre, save_gone, save_failed,
                   snapVars, cmdVars>>

\* transaction.atomic() is left normally: the staged rows are committed
save_commit ==
    /\ save_pc = "commit"
    /\ db' = [i \in AllIds |-> IF txn[i] # NoRow THEN txn[i] ELSE db[i]]
    /\ txn' = [i \in AllIds |-> NoRow]
    /\ save_pc' = "finished"
    /\ UNCHANGED <<ticks, load_pre, flowVars, sessVars, lifeVars, storeVars, tickVars, save_iter, save_broken,
                   save_pre, save_gone, save_failed, snapVars, cmdVars>>

\* transaction.atomic() is left by the RuntimeError, which line 185 logs, or
\* is left while marked for rollback: the staged rows are rolled back
save_rollback ==
    /\ save_pc = "rollback"
    /\ txn' = [i \in AllIds |-> NoRow]
    /\ save_pc' = "finished"
    /\ UNCHANGED <<ticks, load_pre, flowVars, sessVars, lifeVars, db, storeVars, tickVars, save_iter, save_broken,
                   save_pre, save_gone, save_failed, snapVars, cmdVars>>

\* save_to_database returns
save_end ==
    /\ save_pc = "finished"
    /\ save_pc' = "idle"
    /\ save_iter' = <<>>
    /\ save_broken' = FALSE
    /\ save_pre' = NoGhost
    /\ save_gone' = {}
    /\ save_failed' = {}
    /\ UNCHANGED <<ticks, load_pre, flowVars, sessVars, dbVars, storeVars, tickVars, snapVars, cmdVars>>

save_return == save_end /\ UNCHANGED lifeVars

save_to_database ==
    \/ save_enter
    \/ save_lock
    \/ save_item(FALSE)
    \/ save_item(TRUE)
    \/ save_unlock
    \/ save_commit
    \/ save_rollback
    \/ save_return

\* ------------------------------------------------------ get_all_positions
\* lines 73-75: dict(self.plane_positions) copies the keys and the references
\* to the per-plane dicts, not the dicts
get_all_positions(caller) ==
    /\ positions_lock = "free"
    /\ snap' = [snap EXCEPT ![caller] = plane_positions]
    /\ snap_val' = [snap_val EXCEPT ![caller] = TableView]
    /\ heap' = Collect(heap, plane_positions, snap')
    /\ UNCHANGED <<ticks, load_pre, flowVars, sessVars, lifeVars, dbVars, plane_positions, positions_lock, now, loads,
                   tickVars, saveVars, cmdVars>>

\* what a caller reads through the mapping it was given
SnapView(caller) == Deref(heap, snap[caller])

\* a caller changes a field of an entity state of its mapping
CallerWrites(caller, plane_id) ==
    /\ snap[caller] # NoSnap
    /\ snap[caller][plane_id] # NoRef
    /\ heap' = [heap EXCEPT ![snap[caller][plane_id]].is_going_to_end = ~ @]
    /\ UNCHANGED <<ticks, load_pre, flowVars, sessVars, lifeVars, dbVars, plane_positions, positions_lock, now, loads,
                   tickVars, saveVars, snapVars, cmdVars>>

\* ------------------------------------------------------ command workflow
\* the plane and the target of each command
CommandPlane == [c \in Cmds |-> IF c = 1 THEN 2 ELSE 3]

CommandTarget(c) == CHOOSE t \in CommandTargets[CommandPlane[c]] : TRUE

\* perform_create: a command is stored as pending
perform_create(c) ==
    /\ commands[c] = NoCommand
    /\ db[CommandPlane[c]] # NoRow
    /\ commands' = [commands EXCEPT ![c] =
                      [plane |-> CommandPlane[c],
                       target_location |-> Point(CommandTarget(c)[2], CommandTarget(c)[1]),
                       status |-> "pending",
                       by |-> "none"]]
    /\ UNCHANGED <<ticks, load_pre, req, calls, sessVars, lifeVars, dbVars, storeVars, tickVars,
                   saveVars, snapVars, cmdVars>>

\* lines 259-264 and 303-308: the command is read and must be pending
get_object(r, action, pk) ==
    /\ req[r].pc = "idle"
    /\ commands[pk] # NoCommand
    /\ req' = [req EXCEPT ![r] =
                 IF commands[pk].status # "pending"
                 THEN [pc |-> "idle", action |-> action, pk |-> pk, response |-> "400"]
                 ELSE [pc |-> "checked", action |-> action, pk |-> pk, response |-> "none"]]
    /\ UNCHANGED <<ticks, load_pre, commands, calls, sessVars, lifeVars, dbVars, storeVars,
                   tickVars, saveVars, snapVars, cmdVars>>

\* lines 266-267: the command is stored as accepted
accept_save(r) ==
    /\ req[r].pc = "checked"
    /\ req[r].action = "accept"
    /\ commands' = [commands EXCEPT ![req[r].pk].status = "accepted",
                                    ![req[r].pk].by = "accept"]
    /\ req' = [req EXCEPT ![r].pc = "saved"]
    /\ UNCHANGED <<ticks, load_pre, calls, sessVars, lifeVars, dbVars, storeVars, tickVars,
                   saveVars, snapVars, cmdVars>>

\* lines 269-298: the store is told the new target, then the response is sent
accept_retarget(r) ==
    /\ req[r].pc = "saved"
    /\ LET command == commands[req[r].pk]
       IN  /\ update_plane_target(command.plane, command.target_location.y,
                                  command.target_location.x)
           /\ calls' = [calls EXCEPT ![req[r].pk] =
                          Append(@, <<command.plane, command.target_location.y,
                                      command.target_location.x>>)]
    /\ req' = [req EXCEPT ![r].pc = "idle", ![r].response = "200"]
    /\ UNCHANGED commands

\* lines 310-331: the command is stored as rejected
reject_save(r) ==
    /\ req[r].pc = "checked"
    /\ req[r].action = "reject"
    /\ commands' = [commands EXCEPT ![req[r].pk].status = "rejected",
                                    ![req[r].pk].by = "reject"]
    /\ req' = [req EXCEPT ![r].pc = "idle", ![r].response = "200"]
    /\ UNCHANGED <<ticks, load_pre, calls, sessVars, lifeVars, dbVars, storeVars, tickVars,
                   saveVars, snapVars, cmdVars>>

\* the route of a plane after an accepted status update (lines 238-241)
NewRoute(row, command) ==
    [row EXCEPT !.start_point = row.current_position,
                !.end_point = command.target_location]

\* lines 230-241: a status update through the update endpoint; the serializer
\* admits accepted and rejected, whatever the status was
perform_update(pk, status) ==
    /\ commands[pk] # NoCommand
    /\ commands' = [commands EXCEPT ![pk].status = status, ![pk].by = "update"]
    /\ IF status = "accepted"
       THEN /\ txn[commands[pk].plane] = NoRow
            /\ db' = [db EXCEPT ![commands[pk].plane] = NewRoute(@, commands[pk])]
       ELSE UNCHANGED db
    /\ UNCHANGED <<ticks, load_pre, req, calls, sessVars, lifeVars, txn, storeVars, tickVars,
                   saveVars, snapVars, cmdVars>>

CommandFleet == {2, 3}

CommandInit ==
    /\ InitCommon
    /\ ticks = -1
    /\ \E atStart \in BOOLEAN :
          db = [i \in AllIds |-> IF i \in CommandFleet THEN InitialRow(i, atStart)
                                 ELSE NoRow]

CommandLoad == loads = 0 /\ load_planes_from_db

Create == \E c \in Cmds : perform_create(c)

accept ==
    \/ \E r \in Clients : \E pk \in Cmds : get_object(r, "accept", pk)
    \/ \E r \in Clients : accept_save(r)
    \/ \E r \in Clients : accept_retarget(r)

reject ==
    \/ \E r \in Clients : \E pk \in Cmds : get_object(r, "reject", pk)
    \/ \E r \in Clients : reject_save(r)

Update == \E pk \in Cmds : \E status \in {"accepted", "rejected"} : perform_update(pk, status)

CommandNext ==
    \/ CommandLoad
    \/ Create
    \/ accept
    \/ reject
    \/ Update

SpecCommand == CommandInit /\ [][CommandNext]_vars

\* ------------------------------------------- PlanePositionsConsumer
IsNum(v) == "num" \in DOMAIN v

\* the truth value Python gives a filter field: None and 0.0 are false
Truthy(v) == IF IsNum(v) THEN v.num # 0 ELSE FALSE

\* self.<name> = float(value) for each pair in turn, up to the first value
\* float() rejects (ValueError for text, TypeError for None)
RECURSIVE AssignFloats(_, _)
AssignFloats(fields, pairs) ==
    IF pairs = <<>> THEN [fields |-> fields, ok |-> TRUE]
    ELSE IF IsNum(Head(pairs)[2])
         THEN AssignFloats([fields EXCEPT ![Head(pairs)[1]] = Head(pairs)[2]],
                           Tail(pairs))
         ELSE [fields |-> fields, ok |-> FALSE]

RadiusPairs(data) ==
    <<<<"lat", data.lat>>, <<"lng", data.lng>>, <<"radius", data.radius>>>>

BoxPairs(data) ==
    <<<<"min_lat", data.min_lat>>, <<"max_lat", data.max_lat>>,
      <<"min_lng", data.min_lng>>, <<"max_lng", data.max_lng>>>>

HasRadiusKeys(data) ==
    data.lat # Absent /\ data.lng # Absent /\ data.radius # Absent

HasBoxKeys(data) ==
    /\ data.min_lat # Absent /\ data.max_lat # Absent
    /\ data.min_lng # Absent /\ data.max_lng # Absent

ClearRadius(fields) ==
    [fields EXCEPT !.lat = Null, !.lng = Null, !.radius = Null]

ClearBox(fields) ==
    [fields EXCEPT !.min_lat = Null, !.max_lat = Null,
                   !.min_lng = Null, !.max_lng = Null]

RadiusInfo(fields) ==
    [type |-> "radius", lat |-> fields.lat, lng |-> fields.lng,
     radius |-> fields.radius]

BoxInfo(fields) ==
    [type |-> "bounding_box", min_lat |-> fields.min_lat,
     max_lat |-> fields.max_lat, min_lng |-> fields.min_lng,
     max_lng |-> fields.max_lng]

\* the tests of lines 58, 66, 241 and 255
RadiusOn(fields) ==
    Truthy(fields.lat) /\ Truthy(fields.lng) /\ Truthy(fields.radius)

BoxOn(fields) ==
    /\ Truthy(fields.min_lat) /\ Truthy(fields.max_lat)
    /\ Truthy(fields.min_lng) /\ Truthy(fields.max_lng)

\* lines 54-74: the filter description sent on connection
FilterInfo(fields) ==
    IF RadiusOn(fields) THEN RadiusInfo(fields)
    ELSE IF BoxOn(fields) THEN BoxInfo(fields)
    ELSE NoInfo

Data(type, lat, lng, radius, min_lat, max_lat, min_lng, max_lng) ==
    [type |-> type, lat |-> lat, lng |-> lng, radius |-> radius,
     min_lat |-> min_lat, max_lat |-> max_lat,
     min_lng |-> min_lng, max_lng |-> max_lng]

RadiusData(type, lat, lng, radius) ==
    Data(type, lat, lng, radius, Absent, Absent, Absent, Absent)

BoxData(type, min_lat, max_lat, min_lng, max_lng) ==
    Data(type, Absent, Absent, Absent, min_lat, max_lat, min_lng, max_lng)

\* the query strings clients connect with
QueryStrings ==
    {RadiusData("query", Absent, Absent, Absent),
     RadiusData("query", Num(100), Num(DegM), Num(1)),
     RadiusData("query", Num(100), Text, Num(1)),
     BoxData("query", Num(300), Num(900), Num(DegM), Num(DegM)),
     Data("query", Num(100), Num(DegM), Num(1),
          Num(300), Num(900), Num(DegM), Num(DegM))}

\* the messages clients send
Messages ==
    {RadiusData("update_filters", Num(100), Num(DegM), Num(1)),
     RadiusData("update_filters", Num(0), Num(DegM), Num(1)),
     RadiusData("update_filters", Num(900), Text, Num(1)),
     RadiusData("update_filters", Num(100), Num(DegM), Absent),
     BoxData("update_filters", Num(300), Num(900), Num(DegM), Num(DegM)),
     BoxData("update_filters", Num(0), Num(900), Num(DegM), Num(DegM)),
     BoxData("update_filters", Num(600), Null, Num(DegM), Num(DegM)),
     RadiusData("clear_filters", Absent, Absent, Absent),
     RadiusData("not_json", Absent, Absent, Absent)}

\* lines 24-85: the connection is accepted, the filters of the query string
\* are taken, connection_established is sent and the send loop is started
connect(params) ==
    /\ session = "Connecting"
    /\ LET radius == IF HasRadiusKeys(params)
                     THEN AssignFloats(filters, RadiusPairs(params))
                     ELSE [fields |-> filters, ok |-> TRUE]
           afterRadius == IF radius.ok THEN radius.fields
                          ELSE ClearRadius(radius.fields)
           box == IF HasBoxKeys(params)
                  THEN AssignFloats(afterRadius, BoxPairs(params))
                  ELSE [fields |-> afterRadius, ok |-> TRUE]
           afterBox == IF box.ok THEN box.fields ELSE ClearBox(box.fields)
       IN  /\ filters' = afterBox
           /\ reply' = [type |-> "connection_established",
                        filters |-> FilterInfo(afterBox)]
    /\ session' = "Active"
    /\ is_sending' = TRUE
    /\ send_task' = "running"
    /\ UNCHANGED <<ticks, load_pre, flowVars, lifeVars, dbVars, storeVars, tickVars, saveVars,
                   snapVars, cmdVars, send_pc, send_snap, send_items, send_out,
                   send_info, send_flt, send_raced, emission>>

\* mutant: the flag is cleared but the task is left running
disconnect_nocancel ==
    /\ session = "Active"
    /\ session' = "Closed"
    /\ is_sending' = FALSE
    /\ UNCHANGED <<ticks, load_pre, flowVars, lifeVars, dbVars, storeVars, tickVars, saveVars,
                   snapVars, cmdVars, filters, reply, send_pc, send_snap,
                   send_items, send_out, send_info, send_flt, send_raced,
                   emission, send_task>>

\* lines 87-90: the flag is cleared and the task of the send loop is
\* cancelled; CancelledError is raised in the task at the await it is
\* suspended in, and `except Exception` (line 202) does not catch it
disconnect ==
    /\ session = "Active"
    /\ session' = "Closed"
    /\ is_sending' = FALSE
    /\ send_task' = "cancelled"
    /\ UNCHANGED <<ticks, load_pre, flowVars, lifeVars, dbVars, storeVars, tickVars, saveVars,
                   snapVars, cmdVars, filters, reply, send_pc, send_snap,
                   send_items, send_out, send_info, send_flt, send_raced,
                   emission>>

\* the filter fields and the answer after a message (lines 92-171)
Received(fields, data) ==
    IF data.type = "not_json"
    THEN [fields |-> fields, reply |-> [type |-> "error"]]
    ELSE IF data.type = "clear_filters"
    THEN [fields |-> NoFilters, reply |-> [type |-> "filters_cleared"]]
    ELSE IF HasRadiusKeys(data)
    THEN LET radius == AssignFloats(fields, RadiusPairs(data))
         IN  IF radius.ok
             THEN [fields |-> ClearBox(radius.fields),
                   reply |-> [type |-> "filters_updated",
                              filters |-> RadiusInfo(radius.fields)]]
             ELSE [fields |-> radius.fields, reply |-> [type |-> "error"]]
    ELSE IF HasBoxKeys(data)
    THEN LET box == AssignFloats(fields, BoxPairs(data))
         IN  IF box.ok
             THEN [fields |-> ClearRadius(box.fields),
                   reply |-> [type |-> "filters_updated",
                              filters |-> BoxInfo(box.fields)]]
             ELSE [fields |-> box.fields, reply |-> [type |-> "error"]]
    ELSE [fields |-> fields, reply |-> [type |-> "error"]]

receive(data) ==
    /\ session = "Active"
    /\ filters' = Received(filters, data).fields
    /\ reply' = Received(filters, data).reply
    /\ send_raced' = (send_raced \/ (send_pc # "idle" /\ filters' # filters))
    /\ UNCHANGED <<ticks, load_pre, flowVars, lifeVars, dbVars, storeVars, tickVars, saveVars,
                   snapVars, cmdVars, session, send_pc, send_snap, send_items,
                   send_out, send_info, send_flt, emission, is_sending,
                   send_task>>

\* lines 77-96: a new dict per plane, with the bearing toward its target
get_positions_with_heading ==
    [i \in AllIds |->
        IF plane_positions[i] = NoRef THEN NoObj
        ELSE LET pos == heap[plane_positions[i]]
             IN  [current_lat |-> pos.current_lat,
                  current_lng |-> pos.current_lng,
                  is_going_to_end |-> pos.is_going_to_end,
                  heading |-> calculate_bearing(pos.current_lat, pos.current_lng,
                                                pos.target_lat, pos.target_lng),
                  last_updated |-> pos.last_updated]]

\* lines 177-228: a round of the send loop starts by reading the store
send_begin ==
    /\ send_task = "running"
    /\ is_sending
    /\ send_pc = "idle"
    /\ positions_lock = "free"
    /\ send_snap' = get_positions_with_heading
    /\ send_items' = SortedSeq(Keys(plane_positions))
    /\ send_out' = {}
    /\ send_info' = NoInfo
    /\ send_flt' = filters
    /\ send_raced' = FALSE
    /\ emission' = NoEmission
    /\ send_pc' = "filter"
    /\ UNCHANGED <<ticks, load_pre, flowVars, lifeVars, dbVars, storeVars, tickVars, saveVars,
                   snapVars, cmdVars, session, filters, reply, is_sending,
                   send_task>>

\* lines 241-257: whether the filter fields, as they are now, drop a plane
SkipPlane(fields, pos) ==
    IF RadiusOn(fields)
    THEN calculate_distance(pos.current_lat, pos.current_lng,
                            fields.lat.num, fields.lng.num)
            > fields.radius.num * 1000
    ELSE IF BoxOn(fields)
    THEN ~ (/\ fields.min_lat.num <= pos.current_lat
            /\ pos.current_lat <= fields.max_lat.num
            /\ fields.min_lng.num <= pos.current_lng
            /\ pos.current_lng <= fields.max_lng.num)
    ELSE FALSE

\* lines 231-276: the next plane of the snapshot is tested and appended
send_filter ==
    /\ send_pc = "filter"
    /\ send_items # <<>>
    /\ LET plane_id == Head(send_items)
       IN  /\ send_out' = IF SkipPlane(filters, send_snap[plane_id])
                          THEN send_out ELSE send_out \cup {plane_id}
           /\ send_info' = IF send_info = NoInfo THEN FilterInfo(filters)
                           ELSE send_info
    /\ send_items' = Tail(send_items)
    /\ UNCHANGED <<ticks, load_pre, flowVars, lifeVars, dbVars, storeVars, tickVars, saveVars,
                   snapVars, cmdVars, session, filters, reply, send_pc, send_snap,
                   send_flt, send_raced, emission, is_sending, send_task>>

\* one entry of planes: id, lng, lat, heading
PlaneEntry(i, pos) == <<i, pos.current_lng, pos.current_lat, pos.heading>>

RECURSIVE PlaneList(_, _)
PlaneList(ids, positions) ==
    IF ids = <<>> THEN <<>>
    ELSE <<PlaneEntry(Head(ids), positions[Head(ids)])>>
            \o PlaneList(Tail(ids), positions)

\* lines 278-285 and 185-189: the list is sorted by id and sent as positions_update
send_emit ==
    /\ send_task = "running"
    /\ send_pc = "filter"
    /\ send_items = <<>>
    /\ emission' = [planes |-> PlaneList(SortedSeq(send_out), send_snap),
                    count |-> Cardinality(send_out),
                    filters |-> send_info]
    /\ send_pc' = "idle"
    /\ UNCHANGED <<ticks, load_pre, flowVars, lifeVars, dbVars, storeVars, tickVars, saveVars,
                   snapVars, cmdVars, session, filters, reply, send_snap,
                   send_items, send_out, send_info, send_flt, send_raced,
                   is_sending, send_task>>

\* the thread of get_filtered_positions ends after the task was cancelled:
\* nothing waits for its result, which is dropped
send_dropped ==
    /\ send_task = "cancelled"
    /\ send_pc = "filter"
    /\ send_items = <<>>
    /\ send_pc' = "idle"
    /\ UNCHANGED <<ticks, load_pre, flowVars, lifeVars, dbVars, storeVars, tickVars, saveVars,
                   snapVars, cmdVars, session, filters, reply, send_snap,
                   send_items, send_out, send_info, send_flt, send_raced,
                   emission, is_sending, send_task>>

\* lines 220-225 and 202-207: reading the planes from durable storage raises
\* before any plane was tested; the handler of the loop sends an error
\* message and breaks out of the loop
send_except ==
    /\ send_task = "running"
    /\ send_pc = "filter"
    /\ send_items = SortedSeq(Present(send_snap))
    /\ send_pc' = "idle"
    /\ send_items' = <<>>
    /\ send_task' = "failed"
    /\ UNCHANGED <<ticks, load_pre, flowVars, lifeVars, dbVars, storeVars, tickVars, saveVars,
                   snapVars, cmdVars, session, filters, reply, send_snap,
                   send_out, send_info, send_flt, send_raced, emission,
                   is_sending>>

send_positions_periodically ==
    \/ send_begin
    \/ send_filter
    \/ send_emit
    \/ send_dropped
    \/ send_except


\* ------------------------------------------------ start, stop and the loops
\* seconds are counted in tenths
MOVEMENT_INTERVAL == 20
Tolerance == 5

\* what time.time() - start_time can be after an update_positions call:
\* below the interval, equal to it, at the tolerance, beyond the tolerance
Durations == {5, 20, 25, 30}

otherVars == <<ticks, load_pre, flowVars, sessVars, dbVars, storeVars, tickVars,
               saveVars, snapVars, cmdVars>>

\* the threads start() has created so far
Born == {t \in ThreadIds : thread_pc[t] # "unborn"}

At(t, pc) == thread_pc[t] = pc

Goto(t, pc) == thread_pc' = [thread_pc EXCEPT ![t] = pc]

\* lines 228-248: unless already running, load the table, set the flag and
\* start the two threads
start ==
    /\ ~ running
    /\ Born # ThreadIds
    /\ load_planes
    /\ running' = TRUE
    /\ LET t == Cardinality(Born) + 1
       IN  /\ movement_thread' = t
           /\ db_save_thread' = t + 1
           /\ thread_pc' = [thread_pc EXCEPT ![t] = "while", ![t + 1] = "while"]
    /\ UNCHANGED <<stop_pc, iteration>>

\* line 192: the flag is tested; an iteration begins with line 194
movement_loop_while(t) ==
    /\ At(t, "while")
    /\ running => ticks < MaxLifeTicks
    /\ Goto(t, IF running THEN "call" ELSE "exited")
    /\ iteration' = IF running
                    THEN [NoIteration EXCEPT !.after_slow = iteration.warned]
                    ELSE iteration
    /\ UNCHANGED <<otherVars, running, movement_thread, db_save_thread, stop_pc>>

\* line 197: update_positions is called
movement_loop_call(t) ==
    /\ At(t, "call")
    /\ update_positions_call
    /\ Goto(t, IF Keys(plane_positions) = {} THEN "timing" ELSE "update_positions")
    /\ iteration' = [iteration EXCEPT !.calls = @ + 1]
    /\ UNCHANGED <<running, movement_thread, db_save_thread, stop_pc>>

\* update_positions returns to the loop
movement_loop_return(t) ==
    /\ At(t, "update_positions")
    /\ update_positions_return
    /\ Goto(t, "timing")
    /\ UNCHANGED <<running, movement_thread, db_save_thread, stop_pc, iteration>>

\* mutant: the warning is given whenever the loop does not sleep
movement_loop_timing_else(t, elapsed_time) ==
    /\ At(t, "timing")
    /\ LET sleep_time == MOVEMENT_INTERVAL - elapsed_time
       IN  /\ iteration' = [iteration EXCEPT
                  !.elapsed_time = elapsed_time,
                  !.sleep_time = sleep_time,
                  !.slept = IF sleep_time > 0 THEN sleep_time ELSE 0,
                  !.warned = ~ (sleep_time > 0)]
           /\ Goto(t, IF sleep_time > 0 THEN "sleep" ELSE "while")
    /\ UNCHANGED <<otherVars, running, movement_thread, db_save_thread, stop_pc>>

\* lines 200-208: the elapsed time is measured; the loop sleeps for the rest
\* of the interval, or else warns when the call took longer than the
\* interval plus the tolerance
movement_loop_timing(t, elapsed_time) ==
    /\ At(t, "timing")
    /\ LET sleep_time == MOVEMENT_INTERVAL - elapsed_time
       IN  /\ iteration' = [iteration EXCEPT
                  !.elapsed_time = elapsed_time,
                  !.sleep_time = sleep_time,
                  !.slept = IF sleep_time > 0 THEN sleep_time ELSE 0,
                  !.warned = /\ ~ (sleep_time > 0)
                             /\ elapsed_time > MOVEMENT_INTERVAL + Tolerance]
           /\ Goto(t, IF sleep_time > 0 THEN "sleep" ELSE "while")
    /\ UNCHANGED <<otherVars, running, movement_thread, db_save_thread, stop_pc>>

\* line 205: time.sleep(sleep_time) returns
movement_loop_wake(t) ==
    /\ At(t, "sleep")
    /\ Goto(t, "while")
    /\ UNCHANGED <<otherVars, running, movement_thread, db_save_thread, stop_pc,
                   iteration>>

\* an error leaves update_positions: raised outside the try of line 109, at
\* lines 106-108 or by the handler of line 153; the with block releases the
\* lock and the call is over
update_positions_raise ==
    /\ tick_pc = "item"
    /\ positions_lock' = "free"
    /\ tick_pc' = "idle"
    /\ tick_items' = <<>>
    /\ tick_new' = NoMove
    /\ tick_pre' = NoGhost
    /\ tick_failed' = {}
    /\ ticks' = IF ticks < 0 THEN ticks ELSE ticks + 1
    /\ UNCHANGED <<load_pre, flowVars, sessVars, dbVars, heap, plane_positions,
                   now, loads, saveVars, snapVars, cmdVars>>

\* lines 210-211: the error of update_positions is caught by the loop
movement_loop_except(t) ==
    /\ At(t, "update_positions")
    /\ update_positions_raise
    /\ Goto(t, "except")
    /\ UNCHANGED <<running, movement_thread, db_save_thread, stop_pc, iteration>>

\* mutant: the handler ends the loop
movement_loop_break(t) ==
    /\ At(t, "except")
    /\ Goto(t, "exited")
    /\ UNCHANGED <<otherVars, running, movement_thread, db_save_thread, stop_pc,
                   iteration>>

\* line 212: time.sleep(0.1) returns and the loop goes on
movement_loop_continue(t) ==
    /\ At(t, "except")
    /\ Goto(t, "while")
    /\ UNCHANGED <<otherVars, running, movement_thread, db_save_thread, stop_pc,
                   iteration>>

\* the threads of movement_loop have the odd numbers
MovementThreads == {t \in ThreadIds : t % 2 = 1}

movement_loop ==
    \/ \E t \in MovementThreads : movement_loop_while(t)
    \/ \E t \in MovementThreads : movement_loop_call(t)
    \/ \E t \in MovementThreads : movement_loop_return(t)
    \/ \E t \in MovementThreads : \E e \in Durations : movement_loop_timing(t, e)
    \/ \E t \in MovementThreads : movement_loop_wake(t)
    \/ \E t \in MovementThreads : movement_loop_continue(t)

\* mutant: the save loop goes on to its sleep whatever the flag is
db_save_loop_while_deaf(t) ==
    /\ At(t, "while")
    /\ Goto(t, "sleep")
    /\ UNCHANGED <<otherVars, running, movement_thread, db_save_thread, stop_pc,
                   iteration>>

\* line 218: the flag is tested; line 220 begins the sleep of 120 s
db_save_loop_while(t) ==
    /\ At(t, "while")
    /\ Goto(t, IF running THEN "sleep" ELSE "exited")
    /\ UNCHANGED <<otherVars, running, movement_thread, db_save_thread, stop_pc,
                   iteration>>

\* line 220: time.sleep(DB_SAVE_INTERVAL) returns
db_save_loop_wake(t) ==
    /\ At(t, "sleep")
    /\ Goto(t, "check")
    /\ UNCHANGED <<otherVars, running, movement_thread, db_save_thread, stop_pc,
                   iteration>>

\* line 221: the flag is read and is still set
db_save_loop_check(t) ==
    /\ At(t, "check")
    /\ running
    /\ Goto(t, "call")
    /\ UNCHANGED <<otherVars, running, movement_thread, db_save_thread, stop_pc,
                   iteration>>

\* line 222: save_to_database is called
db_save_loop_save(t) ==
    /\ At(t, "call")
    /\ save_call
    /\ Goto(t, IF Keys(plane_positions) = {} THEN "while" ELSE "save_to_database")
    /\ UNCHANGED <<running, movement_thread, db_save_thread, stop_pc, iteration>>

\* line 221: the flag was cleared during the sleep, nothing is saved
db_save_loop_skip(t) ==
    /\ At(t, "check")
    /\ ~ running
    /\ Goto(t, "while")
    /\ UNCHANGED <<otherVars, running, movement_thread, db_save_thread, stop_pc,
                   iteration>>

\* save_to_database returns to the loop
db_save_loop_return(t) ==
    /\ At(t, "save_to_database")
    /\ save_end
    /\ Goto(t, "while")
    /\ UNCHANGED <<running, movement_thread, db_save_thread, stop_pc, iteration>>

\* lines 224-225: an error raised by line 222 is caught by the loop
db_save_loop_except(t) ==
    /\ At(t, "call")
    /\ Goto(t, "except")
    /\ UNCHANGED <<otherVars, running, movement_thread, db_save_thread, stop_pc,
                   iteration>>

\* line 226: time.sleep(10) returns and the loop goes on
db_save_loop_continue(t) ==
    /\ At(t, "except")
    /\ Goto(t, "while")
    /\ UNCHANGED <<otherVars, running, movement_thread, db_save_thread, stop_pc,
                   iteration>>

SaveThreads == ThreadIds \ MovementThreads

db_save_loop ==
    \/ \E t \in SaveThreads : db_save_loop_while(t)
    \/ \E t \in SaveThreads : db_save_loop_wake(t)
    \/ \E t \in SaveThreads : db_save_loop_check(t)
    \/ \E t \in SaveThreads : db_save_loop_save(t)
    \/ \E t \in SaveThreads : db_save_loop_skip(t)
    \/ \E t \in SaveThreads : db_save_loop_return(t)
    \/ \E t \in SaveThreads : db_save_loop_continue(t)

\* the thread has ended, or there is none
Exited(t) == t = NoThread \/ At(t, "exited")

\* lines 252-258: when running, the flag is cleared
stop_signal ==
    /\ stop_pc \in {"idle", "returned"}
    /\ running
    /\ running' = FALSE
    /\ stop_pc' = "join_movement"
    /\ UNCHANGED <<otherVars, movement_thread, db_save_thread, thread_pc, iteration>>

\* lines 261-262: join(timeout=5) of the movement thread returns.  The
\* thread ends within the 5 s: what it has in progress when the flag is
\* cleared is a sleep of at most MOVEMENT_INTERVAL or one update_positions
\* call, and Durations are below 5 s.
stop_join_movement ==
    /\ stop_pc = "join_movement"
    /\ Exited(movement_thread)
    /\ stop_pc' = "join_save"
    /\ UNCHANGED <<otherVars, running, movement_thread, db_save_thread, thread_pc,
                   iteration>>

\* lines 264-265: join(timeout=5) of the save thread returns because the
\* thread has ended
stop_join_save ==
    /\ stop_pc = "join_save"
    /\ Exited(db_save_thread)
    /\ stop_pc' = "save"
    /\ UNCHANGED <<otherVars, running, movement_thread, db_save_thread, thread_pc,
                   iteration>>

\* lines 264-265: join(timeout=5) returns after its 5 s while the thread is
\* still in its sleep of DB_SAVE_INTERVAL = 120 s
stop_join_save_timeout ==
    /\ stop_pc = "join_save"
    /\ At(db_save_thread, "sleep")
    /\ stop_pc' = "save"
    /\ UNCHANGED <<otherVars, running, movement_thread, db_save_thread, thread_pc,
                   iteration>>

\* line 268: the last save_to_database is called
stop_save ==
    /\ stop_pc = "save"
    /\ save_call
    /\ stop_pc' = IF Keys(plane_positions) = {} THEN "returned" ELSE "save_to_database"
    /\ UNCHANGED <<running, movement_thread, db_save_thread, thread_pc, iteration>>

\* lines 268-270: the last save_to_database returns, and stop after it
stop_return ==
    /\ stop_pc = "save_to_database"
    /\ save_end
    /\ stop_pc' = "returned"
    /\ UNCHANGED <<running, movement_thread, db_save_thread, thread_pc, iteration>>

stop ==
    \/ stop_signal
    \/ stop_join_movement
    \/ stop_join_save
    \/ stop_join_save_timeout
    \/ stop_save
    \/ stop_return

\* ---------------------------------------------------------- specification
Fleet == {1, 2}

Init ==
    /\ InitCommon
    /\ ticks = -1
    /\ \E atStart, going \in BOOLEAN :
          db = [i \in AllIds |-> IF i \in Fleet THEN StoredRow(i, atStart, going)
                                 ELSE NoRow]

\* the steps of update_positions once it has passed the emptiness test
update_positions_run ==
    \/ update_positions_lock
    \/ update_positions_move
    \/ update_positions_lng
    \/ update_positions_flip
    \/ update_positions_lookup(FALSE)
    \/ update_positions_lookup(TRUE)
    \/ update_positions_exit

update_positions ==
    \/ update_positions_enter
    \/ update_positions_run

Retarget ==
    \E plane_id \in AllIds : \E t \in CommandTargets[plane_id] :
        update_plane_target(plane_id, t[1], t[2]) /\ UNCHANGED flowVars

Delete == \E plane_id \in AllIds : DeletePlane(plane_id)

Next ==
    \/ load_planes_from_db
    \/ update_positions
    \/ Retarget
    \/ Delete

Spec == Init /\ [][Next]_vars

\* --------------------------------------------- persistence of three planes
SaveInit ==
    /\ InitCommon
    /\ ticks = 0
    /\ db = [i \in AllIds |-> InitialRow(i, TRUE)]

SaveLoad == loads = 0 /\ load_planes_from_db

SaveTick == ticks < MaxSaveTicks /\ update_positions_enter

SaveNext ==
    \/ SaveLoad
    \/ SaveTick
    \/ update_positions_run
    \/ save_to_database
    \/ Delete

SpecSave == SaveInit /\ [][SaveNext]_vars

\* ------------------------------- persistence next to ticks and commands
PersistFleet == {2, 3}

PersistInit ==
    /\ InitCommon
    /\ ticks = 0
    /\ db = [i \in AllIds |-> IF i \in PersistFleet THEN InitialRow(i, TRUE)
                             ELSE NoRow]

PersistNext ==
    \/ SaveLoad
    \/ SaveTick
    \/ update_positions_run
    \/ save_to_database
    \/ Retarget

SpecPersist == PersistInit /\ [][PersistNext]_vars

\* the same, with load_planes_from_db callable again after a save
ReloadNext ==
    \/ load_planes_from_db
    \/ SaveTick
    \/ update_positions_run
    \/ save_to_database
    \/ Retarget

SpecReload == PersistInit /\ [][ReloadNext]_vars

\* ----------------------------------------------- one streaming session
\* two planes on the meridian of one degree east
SessionRows ==
    [i \in AllIds |->
        CASE i = 1 -> NoRow
          [] i = 2 -> InitialRow(2, TRUE)
          [] i = 3 -> Row(Point(DegM, -1500), Point(DegM, -900),
                          Point(DegM, -1500), TRUE)]

SessionInit ==
    /\ InitCommon
    /\ ticks = 0
    /\ db = SessionRows

SessionTick == ticks < MaxSessionTicks /\ update_positions_enter

Connect == \E params \in QueryStrings : connect(params)

Receive == \E data \in Messages : receive(data)

SessionNext ==
    \/ SaveLoad
    \/ SessionTick
    \/ update_positions_run
    \/ Connect
    \/ Receive
    \/ send_positions_periodically
    \/ disconnect

SpecSession == SessionInit /\ [][SessionNext]_vars

\* ------------------------------------------ the manager from start to stop
LifeInit ==
    /\ InitCommon
    /\ ticks = 0
    /\ db = [i \in AllIds |-> IF i \in PersistFleet THEN InitialRow(i, TRUE)
                             ELSE NoRow]

\* the steps of save_to_database between its call and its return
save_to_database_run ==
    \/ save_lock
    \/ save_item(FALSE)
    \/ save_item(TRUE)
    \/ save_unlock
    \/ save_commit
    \/ save_rollback

\* the steps of update_positions between its call and its return
update_positions_body ==
    \/ update_positions_lock
    \/ update_positions_move
    \/ update_positions_lng
    \/ update_positions_flip
    \/ update_positions_lookup(FALSE)
    \/ update_positions_lookup(TRUE)

\* an error reaches the handler of a loop
loop_except ==
    \/ \E t \in MovementThreads : movement_loop_except(t)
    \/ \E t \in SaveThreads : db_save_loop_except(t)

\* start() as fleet/apps.py calls it: once, when the application is ready
LifeStart == Born = {} /\ start

LifeNext ==
    \/ LifeStart
    \/ movement_loop
    \/ update_positions_body
    \/ db_save_loop
    \/ save_to_database_run
    \/ stop
    \/ Delete
    \/ loop_except

SpecLife == LifeInit /\ [][LifeNext]_vars

\* the same manager when start() may be called again after a stop()
\* (with quick update_positions calls and no errors that reach the loops)
RestartNext ==
    \/ start
    \/ \E t \in MovementThreads : movement_loop_while(t)
    \/ \E t \in MovementThreads : movement_loop_call(t)
    \/ \E t \in MovementThreads : movement_loop_return(t)
    \/ \E t \in MovementThreads : movement_loop_timing(t, 5)
    \/ \E t \in MovementThreads : movement_loop_wake(t)
    \/ update_positions_body
    \/ \E t \in SaveThreads : db_save_loop_while(t)
    \/ \E t \in SaveThreads : db_save_loop_wake(t)
    \/ \E t \in SaveThreads : db_save_loop_check(t)
    \/ \E t \in SaveThreads : db_save_loop_save(t)
    \/ \E t \in SaveThreads : db_save_loop_skip(t)
    \/ \E t \in SaveThreads : db_save_loop_return(t)
    \/ save_to_database_run
    \/ stop

\* one plane is enough to tell the threads apart
RestartFleet == {2}

RestartInit ==
    /\ InitCommon
    /\ ticks = 0
    /\ db = [i \in AllIds |-> IF i \in RestartFleet THEN InitialRow(i, TRUE)
                             ELSE NoRow]

SpecRestart == RestartInit /\ [][RestartNext]_vars

\* the steps of stop() after it has cleared the flag
stop_run ==
    \/ stop_join_movement
    \/ stop_join_save
    \/ stop_join_save_timeout
    \/ stop_save
    \/ stop_return

\* the two threads and a stop() that was called keep being scheduled, and
\* time.sleep and the calls to durable storage return
LifeFairness ==
    /\ WF_vars(movement_loop)
    /\ WF_vars(update_positions_body)
    /\ WF_vars(db_save_loop)
    /\ WF_vars(save_to_database_run)
    /\ WF_vars(stop_run)

\* (one plane keeps the behaviours that are checked for progress few)
SpecLifeFair == RestartInit /\ [][LifeNext]_vars /\ LifeFairness

\* a thread blocked in `with self.positions_lock` obtains the lock at one of
\* the moments it is free
LockFairness ==
    /\ SF_vars(update_positions_lock)
    /\ SF_vars(save_lock)

SpecLifeLock == SpecLifeFair /\ LockFairness

\* ------------------------------------------------- readers of the table
Snapshot == get_all_positions(1)

SnapshotNext ==
    \/ load_planes_from_db
    \/ update_positions
    \/ Snapshot

\* one plane, flying along a meridian
SnapshotInit ==
    /\ InitCommon
    /\ ticks = -1
    /\ db = [i \in AllIds |-> IF i = 2 THEN InitialRow(i, TRUE) ELSE NoRow]

SpecSnapshot == SnapshotInit /\ [][SnapshotNext]_vars

Snapshots == \E caller \in Callers : get_all_positions(caller)

Writes == \E caller \in Callers : \E plane_id \in AllIds : CallerWrites(caller, plane_id)

CallersNext ==
    \/ load_planes_from_db
    \/ update_positions
    \/ Snapshots
    \/ Writes

SpecCallers == SnapshotInit /\ [][CallersNext]_vars

\* ------------------------------------------- the scenario of one entity
\* one entity at (0, 0) advancing along the equator toward (0, D)
ScenarioDistances == {1, 600, 601, 1500, DegM}

ScenarioInit ==
    /\ InitCommon
    /\ ticks = 0
    /\ \E D \in ScenarioDistances :
          db = [i \in AllIds |->
                  IF i = 3 THEN Row(Point(0, 0), Point(D, 0), Point(0, 0), TRUE)
                  ELSE NoRow]

ScenarioLoad == loads = 0 /\ load_planes_from_db

ScenarioTick == ticks < MaxTicks /\ update_positions_enter

ScenarioNext ==
    \/ ScenarioLoad
    \/ ScenarioTick
    \/ update_positions_run

SpecScenario == ScenarioInit /\ [][ScenarioNext]_vars

TypeOK ==
    /\ positions_lock \in {"free", "update_positions", "save_to_database"}
    /\ \A i \in AllIds : plane_positions[i] # NoRef => heap[plane_positions[i]] # NoObj

\* ================================================================ claims
AtTickEnd == tick_pc = "item" /\ tick_items = <<>>

Remaining(pos) ==
    calculate_distance(pos.current_lat, pos.current_lng,
                       pos.target_lat, pos.target_lng)

\* the entity stands exactly on the target it had before the tick and its
\* flag is negated
Arrived(pre, post) ==
    /\ post # NoObj
    /\ post.current_lat = pre.target_lat
    /\ post.current_lng = pre.target_lng
    /\ post.is_going_to_end = ~ pre.is_going_to_end

\* the entity moved exactly s metres along the bearing toward the target it
\* had before the tick, its flag unchanged
Advanced(pre, post, s) ==
    /\ post # NoObj
    /\ post.is_going_to_end = pre.is_going_to_end
    /\ <<post.current_lat, post.current_lng>> =
          move_distance_with_bearing(pre.current_lat, pre.current_lng, s,
              calculate_bearing(pre.current_lat, pre.current_lng,
                                pre.target_lat, pre.target_lng))
    /\ calculate_distance(pre.current_lat, pre.current_lng,
                          post.current_lat, post.current_lng) = s
    /\ calculate_distance(post.current_lat, post.current_lng,
                          pre.target_lat, pre.target_lng) = Remaining(pre) - s

\* C1 as stated: after a whole update_positions call every entity that was in
\* the table before it is at its prior target with its flag negated if its
\* remaining distance was <= MOVEMENT_DISTANCE, and otherwise has its flag
\* unchanged and has moved exactly MOVEMENT_DISTANCE toward the prior target.
C1_Stated ==
    AtTickEnd =>
        \A i \in Present(tick_pre) :
            IF Remaining(tick_pre[i]) <= MOVEMENT_DISTANCE
            THEN Arrived(tick_pre[i], TableView[i])
            ELSE Advanced(tick_pre[i], TableView[i], MOVEMENT_DISTANCE)

\* C1 amended: as C1, except that an arriving entity whose durable record no
\* longer exists is removed from the table instead.
C1_Amended ==
    AtTickEnd =>
        \A i \in Present(tick_pre) :
            IF Remaining(tick_pre[i]) <= MOVEMENT_DISTANCE
            THEN IF plane_positions[i] # NoRef
                 THEN Arrived(tick_pre[i], TableView[i])
                 ELSE db[i] = NoRow
            ELSE Advanced(tick_pre[i], TableView[i], MOVEMENT_DISTANCE)

C1_Witness ==
    /\ AtTickEnd
    /\ \E i, j \in Present(tick_pre) :
          /\ Remaining(tick_pre[i]) = MOVEMENT_DISTANCE
          /\ Arrived(tick_pre[i], TableView[i])
          /\ Remaining(tick_pre[j]) > MOVEMENT_DISTANCE
          /\ Advanced(tick_pre[j], TableView[j], MOVEMENT_DISTANCE)

\* C5: update_plane_target returns true iff the id is a key of the table;
\* when it returns true only that entity's target changes (to the given
\* point); when it returns false the table is unchanged and gains no key.
C5_Frame ==
    [][\A plane_id \in AllIds : \A t \in CommandTargets[plane_id] :
          update_plane_target(plane_id, t[1], t[2]) =>
             /\ ret' = IF plane_id \in Keys(plane_positions) THEN "True" ELSE "False"
             /\ plane_positions' = plane_positions
             /\ IF ret' = "True"
                THEN TableView' = [TableView EXCEPT ![plane_id].target_lat = t[1],
                                                    ![plane_id].target_lng = t[2]]
                ELSE TableView' = TableView]_vars

C5_Witness ==
    /\ ret = "True"
    /\ \E i \in Keys(plane_positions) :
          /\ commanded[i] # NoPoint
          /\ <<TableView[i].target_lat, TableView[i].target_lng>> = diverted[i]
          /\ <<TableView[i].target_lat, TableView[i].target_lng>>
                \notin {<<Routes[i][1].y, Routes[i][1].x>>,
                        <<Routes[i][2].y, Routes[i][2].x>>}
    /\ \E j \in AllIds : j \notin Keys(plane_positions)

\* the tick computes the step of entity i (lines 111-118)
MovesItem(i) ==
    /\ tick_pc = "item"
    /\ tick_items # <<>>
    /\ Head(tick_items) = i
    /\ tick_pc' = "lng"

\* C6: once update_plane_target(i, lat, lng) has returned true, the first
\* tick that processes i afterwards moves it toward (lat, lng) or snaps it
\* onto that point: the commanded target is not lost to the arrival handling
\* of a tick that raced with the command.
C6_NextTickUsesCommand ==
    [][\A i \in AllIds :
          (MovesItem(i) /\ commanded[i] # NoPoint) =>
             tick_new' = move_towards_target(TableView[i].current_lat,
                                             TableView[i].current_lng,
                                             commanded[i][1], commanded[i][2],
                                             MOVEMENT_DISTANCE)]_vars

C6_Witness ==
    /\ tick_pc = "lng"
    /\ LET i == Head(tick_items)
       IN  /\ diverted[i] # NoPoint
           /\ commanded[i] = NoPoint
           /\ <<tick_pre[i].target_lat, tick_pre[i].target_lng>> = diverted[i]
           /\ tick_new = <<diverted[i][1], diverted[i][2], TRUE>>
           /\ ~ tick_pre[i].is_going_to_end

\* the route end point selected by a flag
Endpoint(i, going) ==
    IF going THEN <<Routes[i][2].y, Routes[i][2].x>>
    ELSE <<Routes[i][1].y, Routes[i][1].x>>

\* the tick finishes the arrival handling of entity i (lines 127-153)
HandlesArrival(i) ==
    /\ tick_pc = "lookup"
    /\ Head(tick_items) = i
    /\ tick_pc' = "item"

\* C7 as stated: the arrival that follows an external retarget to X negates
\* the flag and sets the target to the original end point of the route if
\* the entity is now advancing, to its start point otherwise (whenever the
\* durable record of the entity exists).
C7_Stated ==
    [][\A i \in AllIds :
          (HandlesArrival(i) /\ diverted[i] # NoPoint /\ db[i] # NoRow) =>
             /\ TableView'[i] # NoObj
             /\ TableView'[i].is_going_to_end = ~ tick_pre[i].is_going_to_end
             /\ <<TableView'[i].target_lat, TableView'[i].target_lng>> =
                   Endpoint(i, TableView'[i].is_going_to_end)]_vars

\* C8 as stated: whenever no operation is in progress, every entity that was
\* not retargeted since its last arrival or load has the route end point as
\* target if it is advancing and the start point otherwise.
C8_Stated ==
    positions_lock = "free" =>
        \A i \in Keys(plane_positions) :
            diverted[i] = NoPoint =>
                <<TableView[i].target_lat, TableView[i].target_lng>> =
                    Endpoint(i, TableView[i].is_going_to_end)

\* C9 as stated: every entity's latitude is within [-90, 90] degrees and its
\* longitude within [-180, 180] degrees in every reachable state.
C9_Stated ==
    \A i \in Keys(plane_positions) :
        /\ TableView[i].current_lat >= -QuarterTurn
        /\ TableView[i].current_lat <= QuarterTurn
        /\ TableView[i].current_lng >= -HalfTurn
        /\ TableView[i].current_lng <= HalfTurn

\* the distance of the route of entity i, and the number of ticks it takes
RouteLength(i) ==
    calculate_distance(db[i].start_point.y, db[i].start_point.x,
                       db[i].end_point.y, db[i].end_point.x)

TicksNeeded(i) == (RouteLength(i) + MOVEMENT_DISTANCE - 1) \div MOVEMENT_DISTANCE

\* C2: an entity loaded at distance D > 0 from its target and only advanced
\* has not arrived after any tick k < ceil(D / s): it is D - k * s short of
\* the target with its flag untouched; after tick ceil(D / s) it is exactly
\* on the target and its flag has flipped.  For D = one degree and s = 600:
\* after 185 ticks it is within 600 m of (0, 1 degree) but not on it, after
\* 186 ticks it is on it with advancing = false.
C2_ArrivalTick ==
    tick_pc = "idle" =>
        \A i \in Keys(plane_positions) :
            LET pos == TableView[i]
                atEnd == /\ pos.current_lat = db[i].end_point.y
                         /\ pos.current_lng = db[i].end_point.x
            IN  /\ ticks < TicksNeeded(i) =>
                      /\ ~ atEnd
                      /\ pos.is_going_to_end
                      /\ Remaining(pos) = RouteLength(i) - ticks * MOVEMENT_DISTANCE
                /\ ticks = TicksNeeded(i) =>
                      /\ atEnd
                      /\ ~ pos.is_going_to_end
                /\ (RouteLength(i) = DegM /\ ticks = 185) =>
                      /\ ~ atEnd
                      /\ Remaining(pos) <= MOVEMENT_DISTANCE
                /\ (RouteLength(i) = DegM /\ ticks = 186) =>
                      /\ pos.current_lat = 0 /\ pos.current_lng = DegM
                      /\ ~ pos.is_going_to_end

C2_Witness ==
    /\ tick_pc = "idle"
    /\ ticks = 186
    /\ plane_positions[3] # NoRef
    /\ RouteLength(3) = DegM
    /\ TableView[3].current_lat = 0
    /\ TableView[3].current_lng = DegM
    /\ ~ TableView[3].is_going_to_end

\* C3 as stated: a caller changing a field of an entity state of the mapping
\* it got from get_all_positions changes neither the table of the store nor
\* what any other caller reads through its own mapping.
C3_Stated ==
    [][\A caller \in Callers : \A plane_id \in AllIds :
          CallerWrites(caller, plane_id) =>
             /\ TableView' = TableView
             /\ \A other \in Callers \ {caller} :
                   snap[other] # NoSnap => SnapView(other)' = SnapView(other)]_vars

\* C4 as stated: whatever is read through a mapping returned by
\* get_all_positions is what the table held when the mapping was returned; no
\* later tick or retarget changes it, and no partly applied update shows.
C4_Stated ==
    \A caller \in Callers :
        snap[caller] # NoSnap => SnapView(caller) = snap_val[caller]

\* the rows that were missing when the save took the lock are the rows that
\* are missing now
SameRowsAsAtSave ==
    \A i \in Present(save_pre) : (db[i] = NoRow) <=> (i \in save_gone)

\* C10 as stated: when save_to_database has run while one entity of the table
\* had no row (no row was deleted meanwhile and no read or write failed),
\* the position and flag every other entity had are in durable storage and
\* the entity without row is no longer in the table.
C10_Stated ==
    (/\ save_pc = "finished"
     /\ Cardinality(save_gone) = 1
     /\ SameRowsAsAtSave
     /\ save_failed = {}) =>
        \A i \in Present(save_pre) :
            IF i \in save_gone
            THEN plane_positions[i] = NoRef
            ELSE db[i] = SavedRow(db[i], save_pre[i])

\* the save has returned and the rows that were missing when it started are
\* the rows that are missing now
SaveCompleted == save_pc = "finished" /\ SameRowsAsAtSave

\* C11 as stated: when save_to_database has completed, every entity of the
\* table whose row was missing when the call started is no longer in the
\* table, however many such entities there were.
C11_Stated ==
    (SaveCompleted /\ save_failed = {}) =>
        \A i \in save_gone : plane_positions[i] = NoRef

\* C12 as stated: when the write of one entity raised an error during
\* save_to_database (and no row was missing), every other entity of the
\* table has its position and flag in durable storage when the call returns,
\* and the failing entity is still in the table, unchanged.
C12_Stated ==
    /\ (save_pc = "item" /\ save_iter = <<>>) =>
          \A i \in save_failed : TableView[i] = save_pre[i]
    /\ (SaveCompleted /\ save_gone = {} /\ save_failed # {}) =>
          \A i \in Present(save_pre) \ save_failed :
              db[i] = SavedRow(db[i], save_pre[i])

\* the rows staged by the transaction of the save
Staged == {i \in AllIds : txn[i] # NoRow}

\* C13: every value save_to_database writes was read from one state of the
\* table, the one it found when it took the lock: while it reads, no tick
\* and no retarget changes any entity (only the save's own pruning removes
\* keys), so each staged row holds the position and flag of that state.
C13_SingleState ==
    /\ save_pc = "item" =>
          \A i \in Keys(plane_positions) : TableView[i] = save_pre[i]
    /\ \A i \in Staged : txn[i] = SavedRow(db[i], save_pre[i])

C13_Witness ==
    /\ save_pc = "item"
    /\ save_iter = <<>>
    /\ tick_pc = "acquire"
    /\ Cardinality(Staged) >= 2
    /\ \A i \in Staged : txn[i] # db[i]
    /\ \E i \in Staged : diverted[i] # NoPoint

\* C14: a load leaves the table with exactly one entry per Plane row and no
\* other entry; each entry has the row's current position and flag, and the
\* row's end point as target if the flag is set, its start point otherwise.
C14_LoadReplaces ==
    [][load_planes_from_db =>
          \A i \in AllIds :
              IF db[i] = NoRow
              THEN plane_positions'[i] = NoRef
              ELSE /\ plane_positions'[i] # NoRef
                   /\ TableView'[i].current_lat = db[i].current_position.y
                   /\ TableView'[i].current_lng = db[i].current_position.x
                   /\ TableView'[i].is_going_to_end = db[i].is_going_to_end
                   /\ <<TableView'[i].target_lat, TableView'[i].target_lng>> =
                         IF db[i].is_going_to_end
                         THEN <<db[i].end_point.y, db[i].end_point.x>>
                         ELSE <<db[i].start_point.y, db[i].start_point.x>>]_vars

\* a second load has dropped an entry whose row was deleted and has replaced
\* a moved entry by its row, which is going back to the start point
C14_Witness ==
    /\ loads = 2
    /\ \E i \in Present(load_pre) : plane_positions[i] = NoRef
    /\ \E j \in Present(load_pre) :
          /\ plane_positions[j] # NoRef
          /\ TableView[j] # load_pre[j]
          /\ load_pre[j].current_lat # TableView[j].current_lat
          /\ ~ TableView[j].is_going_to_end
          /\ TableView[j].current_lat = db[j].current_position.y
          /\ <<TableView[j].target_lat, TableView[j].target_lng>> =
                <<db[j].start_point.y, db[j].start_point.x>>

\* no request on command c is between its first and its last step
Settled(c) == \A r \in Clients : req[r].pc = "idle" \/ req[r].pk # c

Accepted(c) == commands[c] # NoCommand /\ commands[c].status = "accepted"

\* C15 as stated: for every command stored as accepted, once the requests on
\* it have finished, update_plane_target has been called exactly once, with
\* the plane id and the target coordinates of the command.
C15_Stated ==
    \A c \in Cmds :
        (Accepted(c) /\ Settled(c)) =>
            calls[c] = <<<<commands[c].plane, commands[c].target_location.y,
                           commands[c].target_location.x>>>>

\* C16 as stated: in no state is a command stored as accepted by the accept
\* action while update_plane_target has not yet been called for it.
C16_Stated ==
    \A c \in Cmds :
        (Accepted(c) /\ commands[c].by = "accept") => calls[c] # <<>>

\* the ids of the planes of the last positions_update
Emitted == {emission.planes[k][1] : k \in 1..Len(emission.planes)}

\* a round has sent its positions_update and no message changed the filter
\* fields while it ran
RoundSent == emission # NoEmission /\ ~ send_raced

AllNum(fields, names) == \A n \in names : IsNum(fields[n])

AllNull(fields, names) == \A n \in names : fields[n] = Null

RadiusNames == {"lat", "lng", "radius"}

BoxNames == {"min_lat", "max_lat", "min_lng", "max_lng"}

\* C17 as stated: when the session's filter is a radius filter with centre
\* (lat, lng) and radius r km, whatever their values, the planes of a
\* positions_update are exactly the planes of the snapshot whose distance
\* from the centre is <= r * 1000 metres.
C17_Stated ==
    (/\ RoundSent
     /\ AllNum(send_flt, RadiusNames)
     /\ AllNull(send_flt, BoxNames)) =>
        Emitted = {i \in Present(send_snap) :
                      calculate_distance(send_snap[i].current_lat,
                                         send_snap[i].current_lng,
                                         send_flt.lat.num, send_flt.lng.num)
                         <= send_flt.radius.num * 1000}

\* C18 as stated: when the session's filter is a bounding box, whatever its
\* bounds, the planes of a positions_update are exactly the planes of the
\* snapshot with min_lat <= lat <= max_lat and min_lng <= lng <= max_lng.
C18_Stated ==
    (/\ RoundSent
     /\ AllNum(send_flt, BoxNames)
     /\ AllNull(send_flt, RadiusNames)) =>
        Emitted = {i \in Present(send_snap) :
                      /\ send_flt.min_lat.num <= send_snap[i].current_lat
                      /\ send_snap[i].current_lat <= send_flt.max_lat.num
                      /\ send_flt.min_lng.num <= send_snap[i].current_lng
                      /\ send_snap[i].current_lng <= send_flt.max_lng.num}

\* an update_filters message that is neither a complete numeric radius
\* filter nor a complete numeric bounding box
Malformed(data) ==
    /\ data.type = "update_filters"
    /\ ~ (HasRadiusKeys(data) /\ AllNum(data, RadiusNames))
    /\ ~ (HasBoxKeys(data) /\ AllNum(data, BoxNames))

\* C19 as stated: a malformed update_filters message is answered with an
\* error and leaves all seven filter fields as they were.
C19_Stated ==
    [][\A data \in Messages :
          (Malformed(data) /\ receive(data)) =>
             /\ reply'.type = "error"
             /\ filters' = filters]_vars

\* C20 as stated: in every state of a session the three radius fields and
\* the four bounding-box fields are not both set.
C20_Stated ==
    ~ (/\ \A n \in RadiusNames : filters[n] # Null
       /\ \A n \in BoxNames : filters[n] # Null)

\* the descriptor of the filter held in the fields: the radius descriptor
\* when the radius fields are set, the bounding-box descriptor when the box
\* fields are set, none when no field is set
Descriptor(fields) ==
    IF AllNum(fields, RadiusNames) /\ AllNull(fields, BoxNames)
    THEN RadiusInfo(fields)
    ELSE IF AllNum(fields, BoxNames) /\ AllNull(fields, RadiusNames)
    THEN BoxInfo(fields)
    ELSE NoInfo

\* the fields hold one whole filter or none
WellFormed(fields) ==
    \/ AllNum(fields, RadiusNames) /\ AllNull(fields, BoxNames)
    \/ AllNum(fields, BoxNames) /\ AllNull(fields, RadiusNames)
    \/ fields = NoFilters

\* C21 as stated: every positions_update carries the descriptor of the filter
\* of its session at that round: the radius descriptor when a radius filter
\* is set, the bounding-box descriptor when a bounding box is set, null only
\* when no filter is set, for every snapshot, the empty table included.
C21_Stated ==
    (RoundSent /\ WellFormed(send_flt)) =>
        emission.filters = Descriptor(send_flt)

\* whether a plane of the snapshot passes the filter a descriptor describes
Passes(info, pos) ==
    CASE info.type = "radius" ->
            calculate_distance(pos.current_lat, pos.current_lng,
                               info.lat.num, info.lng.num)
               <= info.radius.num * 1000
      [] info.type = "bounding_box" ->
            (/\ info.min_lat.num <= pos.current_lat
             /\ pos.current_lat <= info.max_lat.num
             /\ info.min_lng.num <= pos.current_lng
             /\ pos.current_lng <= info.max_lng.num)
      [] OTHER -> TRUE

\* the last message was a filter change, the session acknowledged it, and
\* the fields are still those the last round started with
Acknowledged ==
    /\ reply.type \in {"filters_updated", "filters_cleared"}
    /\ filters = send_flt

\* the filter of the acknowledgement: none after filters_cleared
AcknowledgedInfo ==
    IF reply.type = "filters_updated" THEN reply.filters ELSE NoInfo

\* C22 as stated: once the session has acknowledged a filter change, a
\* positions_update of a round started afterwards holds exactly the planes
\* of the snapshot that pass the acknowledged filter (all of them after
\* filters_cleared); an acknowledged filter is never ignored.
C22_Stated ==
    (RoundSent /\ Acknowledged) =>
        Emitted = {i \in Present(send_snap) :
                      Passes(AcknowledgedInfo, send_snap[i])}

\* C23: a positions_update is sent only by a session that is Active, hence
\* after connection_established and never after disconnect has run, even
\* when a round of the send loop was in progress at the disconnect.
C23_OnlyWhileActive ==
    [][(emission' # emission /\ emission' # NoEmission) =>
          (/\ session = "Active"
           /\ session' = "Active"
           /\ reply.type # "none")]_vars

\* the session was closed during a round, whose list of planes is ready and
\* is never sent
C23_Witness ==
    /\ session = "Closed"
    /\ send_pc = "filter"
    /\ send_items = <<>>
    /\ send_out # {}
    /\ emission = NoEmission

\* C26: a step that is not a load adds no identifier to the table, and an
\* identifier leaves the table only in the step of update_positions or of
\* save_to_database that looked its row up and found it missing.
C26_KeysOnlyShrink ==
    [][loads' = loads =>
          /\ Keys(plane_positions') \subseteq Keys(plane_positions)
          /\ \A i \in Keys(plane_positions) \ Keys(plane_positions') :
                /\ db[i] = NoRow
                /\ \/ tick_pc = "lookup" /\ Head(tick_items) = i
                   \/ save_pc = "item" /\ Head(save_iter) = i]_vars

\* after the load of three planes and a tick, a save has found a row missing
\* and removed its entry; other entries are left
C26_Witness ==
    /\ loads = 1
    /\ save_broken
    /\ Keys(plane_positions) # AllIds
    /\ Keys(plane_positions) # {}
    /\ ticks > 0

\* the whole update of entity i by the tick in progress: a step of
\* MOVEMENT_DISTANCE toward the target it had, the target kept; or the
\* arrival on that target with the flag negated and the end of the route
\* that the new flag selects as target; or, on arrival with the durable
\* record gone, the removal of the entity
FullUpdate(i) ==
    IF Remaining(tick_pre[i]) <= MOVEMENT_DISTANCE
    THEN IF plane_positions[i] # NoRef
         THEN /\ Arrived(tick_pre[i], TableView[i])
              /\ <<TableView[i].target_lat, TableView[i].target_lng>> =
                    Endpoint(i, TableView[i].is_going_to_end)
         ELSE db[i] = NoRow
    ELSE /\ Advanced(tick_pre[i], TableView[i], MOVEMENT_DISTANCE)
         /\ TableView[i].target_lat = tick_pre[i].target_lat
         /\ TableView[i].target_lng = tick_pre[i].target_lng

\* C27: when the loop of a tick over the entities ends, every entity other
\* than those whose processing raised a fault has received its whole update:
\* a fault on one entity neither ends the tick nor touches another entity.
C27_OthersUpdated ==
    AtTickEnd => \A i \in Present(tick_pre) \ tick_failed : FullUpdate(i)

\* the endpoint lookup of one entity failed and an entity processed after it
\* moved its full step
C27_Witness ==
    /\ AtTickEnd
    /\ \E i \in tick_failed : \E j \in Present(tick_pre) :
          /\ j > i
          /\ Advanced(tick_pre[j], TableView[j], MOVEMENT_DISTANCE)

\* the tick is about to run Plane.objects.get for the entity that arrived
LookupPending == tick_pc = "lookup"

\* the save is about to run Plane.objects.get and plane.save for an entity
WritePending == save_pc = "item" /\ ~ save_broken /\ save_iter # <<>>

\* C28 as stated: in no state is a durable-storage read or write of
\* update_positions or of save_to_database about to be made by a thread
\* that holds positions_lock.
C28_Stated ==
    /\ LookupPending => positions_lock # "update_positions"
    /\ WritePending => positions_lock # "save_to_database"

\* C29 as stated: every step of update_positions and of save_to_database
\* that reads the table is made by a thread that holds positions_lock at
\* that step; the emptiness tests that open both operations are such reads.
C29_Stated ==
    [][/\ update_positions_enter => positions_lock = "update_positions"
       /\ save_enter => positions_lock = "save_to_database"]_vars

\* stop has called its last save_to_database
FinalSaveStarted == stop_pc \in {"save_to_database", "returned"}

\* a thread is inside update_positions or inside the save_to_database of the
\* save loop
LoopWorking ==
    \E t \in ThreadIds : At(t, "update_positions") \/ At(t, "save_to_database")

\* C24 as stated: once stop has started its last save_to_database, the
\* movement thread and the save thread have both ended, and neither an
\* update_positions call nor a save_to_database of the save loop is running.
C24_Stated ==
    FinalSaveStarted =>
        /\ Exited(movement_thread)
        /\ Exited(db_save_thread)
        /\ ~ LoopWorking

\* the durable row of entity i holds the position and the flag of the table
Flushed(i) ==
    /\ db[i].current_position = Point(TableView[i].current_lng,
                                      TableView[i].current_lat)
    /\ db[i].is_going_to_end = TableView[i].is_going_to_end

\* C25 as stated: when stop returns, the durable record of every entity
\* still in the table holds the entity's position and flag (stated for the
\* entities whose record exists, and for a last save in which no write to
\* durable storage failed).
C25_Stated ==
    [][(stop_pc # "returned" /\ stop_pc' = "returned" /\ save_failed = {}) =>
          \A i \in Keys(plane_positions') :
              db'[i] # NoRow => Flushed(i)']_vars

\* the iteration in progress has measured its elapsed time
Measured == iteration.elapsed_time # -1

C37_Stated ==
    [][\A c \in Cmds :
          (/\ commands[c] # NoCommand
           /\ commands[c].status # "pending"
           /\ commands'[c] # NoCommand) =>
              commands'[c].status = commands[c].status]_vars


\* C38 as stated: when no accept or reject request is in progress and a
\* command is stored as rejected by a reject request, the target of its plane
\* in the table was never overwritten with the command's coordinates.
C38_Stated ==
    \A c \in Cmds :
        (/\ commands[c] # NoCommand
         /\ commands[c].status = "rejected"
         /\ commands[c].by = "reject"
         /\ \A r \in Clients : req[r].pc = "idle") =>
            commanded[commands[c].plane] # <<commands[c].target_location.y,
                                            commands[c].target_location.x>>

\* C39 as stated: the planes of a positions_update are exactly the planes of
\* the snapshot that pass the filter its descriptor names (all of them when
\* there is no descriptor), also when update_filters or clear_filters
\* messages were processed while the snapshot was being filtered.
C39_Stated ==
    emission # NoEmission =>
        Emitted = {i \in Present(send_snap) :
                      Passes(emission.filters, send_snap[i])}

\* position, advancing flag and target of every entity of a table
Restorable(view) ==
    [i \in AllIds |->
        IF view[i] = NoObj THEN NoObj
        ELSE [current_lat |-> view[i].current_lat,
              current_lng |-> view[i].current_lng,
              is_going_to_end |-> view[i].is_going_to_end,
              target_lat |-> view[i].target_lat,
              target_lng |-> view[i].target_lng]]

\* save_to_database has committed every entity of the table, each of which
\* has a row, and the table is still as the save found it
SavedAll ==
    /\ save_pc = "finished"
    /\ ~ save_broken
    /\ save_failed = {}
    /\ save_gone = {}
    /\ \A i \in Present(save_pre) : db[i] # NoRow
    /\ tick_pc = "idle"
    /\ Restorable(TableView) = Restorable(save_pre)

\* C40 as stated: a load that follows such a save leaves every entity with
\* the position, advancing flag and target it had before the save.
C40_Stated ==
    [][(SavedAll /\ loads' = loads + 1) =>
          Restorable(TableView') = Restorable(save_pre)]_vars

\* C36 as stated: the save loop calls save_to_database only while the flag
\* is set; once stop has cleared the flag, no thread of the save loop starts
\* a save_to_database.
C36_Stated ==
    [][\A t \in SaveThreads :
          (At(t, "call") /\ thread_pc'[t] # "call") => running]_vars

\* stop has cleared the flag of a manager whose threads were started
Stopping == Born # {} /\ ~ running

\* C33: once stop has cleared the flag, the movement thread and the save
\* thread both leave their loops and end, whatever tick, save or sleep they
\* were in when the flag was cleared.
C33_LoopsExit ==
    Stopping ~> (\A t \in Born : At(t, "exited"))

\* stop was called after a tick, has returned, and both threads have ended
C33_Witness ==
    /\ Stopping
    /\ stop_pc = "returned"
    /\ ticks >= 1
    /\ \A t \in Born : At(t, "exited")

\* C35: the lock never blocks for good: whoever holds it releases it, also
\* after an error raised inside the locked section, and an update_positions
\* or a save_to_database that waits for the lock obtains it.
C35_LockObtained ==
    /\ (positions_lock # "free") ~> (positions_lock = "free")
    /\ (tick_pc = "acquire") ~> (positions_lock = "update_positions")
    /\ (save_pc = "acquire") ~> (positions_lock = "save_to_database")

\* the iteration of a save was ended by an error inside the locked section,
\* the lock was released, and the tick that waited for it holds it
C35_Witness ==
    /\ save_pc = "rollback"
    /\ save_broken
    /\ positions_lock = "update_positions"

\* C31: an error caught by the handler of movement_loop or of db_save_loop
\* does not end the loop: unless the flag is cleared, the thread comes back
\* to the call of update_positions, or of save_to_database, of a later
\* iteration (for movement_loop: while it has calls left to make here).
C31_LoopGoesOn ==
    /\ \A t \in MovementThreads :
          At(t, "except") ~>
              (At(t, "call") \/ ~ running \/ ticks >= MaxLifeTicks)
    /\ \A t \in SaveThreads :
          At(t, "except") ~> (At(t, "call") \/ ~ running)

\* both loops are in their handlers at once, the flag still set and the
\* lock released by the update_positions call that failed
C31_Witness ==
    /\ running
    /\ Born # {}
    /\ \A t \in Born : At(t, "except")
    /\ positions_lock = "free"
    /\ ticks < MaxLifeTicks

\* C32 as stated: the send loop of a session that is Active has not ended,
\* whatever errors its rounds have met, so that further rounds follow.
C32_Stated ==
    session = "Active" => send_task = "running"

\* the thread was started and has not left its loop
Alive(t) == ~ At(t, "unborn") /\ ~ At(t, "exited")

\* C34 as stated: whatever start and stop calls were made, at most one
\* thread of movement_loop and at most one thread of db_save_loop is alive.
C34_Stated ==
    /\ Cardinality({t \in MovementThreads : Alive(t)}) <= 1
    /\ Cardinality({t \in SaveThreads : Alive(t)}) <= 1
====
